---- MODULE Spec2Model ----
(***************************************************************************)
(* Model of the safe_unzip extraction engine: Extractor.extract (ZIP),     *)
(* Driver.extract_zip and Driver.extract_tar, with their policy checks,    *)
(* the bounded copy and the filesystem operations they perform.            *)
(*                                                                         *)
(* An entry name is the sequence of its '/'-separated components           *)
(* (name.split('/')): "a/b" is <<"a","b">>, "/a" is <<"","a">>, the empty   *)
(* name is <<"">>.  A filesystem path is the sequence of the names on the  *)
(* way from "/" (<<>>) to the object.                                      *)
(***************************************************************************)
EXTENDS Integers, Sequences, FiniteSets, TLC

VARIABLES
    engine,     \* "Extractor" | "DriverZip" | "DriverTar"
    cfg,        \* overwrite, symlinks, mode, limits
    archive,    \* the entries, in archive order
    fs,         \* path -> directory entry (dir, file with inode, symlink)
    inodes,     \* inode number -> file data (content, permission bits, creator)
    pc,         \* position of the extraction
    idx,        \* index of the entry being processed (1-based)
    report,     \* files_extracted, dirs_created, bytes_written, entries_skipped
    err,        \* the error returned, NoErr while none
    handle,     \* inode of the open output file, 0 when none
    written,    \* bytes copied for the current entry
    vstate,     \* accumulators of the validation pass
    cache,      \* TarAdapter.cached_entries: content length cached per entry
    accepted,   \* the filter's verdict on the current entry: "unasked", "yes", "no"
    envSteps,   \* steps taken by another process in the destination
    fs0,        \* the filesystem before the extraction (history)
    inodes0,    \* the file data before the extraction (history)
    probe,      \* the input of a check applied on its own, and its answers so far
    vreport,    \* entries_verified, bytes_verified of Extractor::verify
    solo        \* the disk as the extraction alone would have made it (history)

vars == <<engine, cfg, archive, fs, inodes, pc, idx, report, err, handle,
          written, vstate, cache, accepted, envSteps, fs0, inodes0, probe, vreport, solo>>

----------------------------------------------------------------------------
(* Bounds of the model *)

MaxEntries == 2
Fuel == 2
MaxEnvSteps == 2
MaxNameLen == 4
WordBits == 4

----------------------------------------------------------------------------
(* Small helpers *)

Min(a, b) == IF a < b THEN a ELSE b

SatSub(a, b) == IF a > b THEN a - b ELSE 0

Front(s) == SubSeq(s, 1, Len(s) - 1)

Last(s) == s[Len(s)]

IsPrefix(p, q) == Len(p) <= Len(q) /\ SubSeq(q, 1, Len(p)) = p

RECURSIVE SeqSum(_)
SeqSum(s) == IF s = <<>> THEN 0 ELSE Head(s) + SeqSum(Tail(s))

----------------------------------------------------------------------------
(* Entry names and std::path::Path::components *)

IsAbsolute(name) == Len(name) >= 2 /\ name[1] = ""

RECURSIVE CompsFrom(_, _)
CompsFrom(name, i) ==
    IF i > Len(name) THEN <<>>
    ELSE LET c == name[i] IN
         IF c = "" THEN CompsFrom(name, i + 1)
         ELSE IF c = "."
              THEN (IF i = 1 THEN <<[t |-> "CurDir", s |-> c]>> ELSE <<>>)
                   \o CompsFrom(name, i + 1)
         ELSE IF c = ".."
              THEN <<[t |-> "ParentDir", s |-> c]>> \o CompsFrom(name, i + 1)
         ELSE <<[t |-> "Normal", s |-> c]>> \o CompsFrom(name, i + 1)

Components(name) ==
    (IF IsAbsolute(name) THEN <<[t |-> "RootDir", s |-> ""]>> ELSE <<>>)
    \o CompsFrom(name, 1)

NormalCount(name) ==
    Cardinality({i \in 1..Len(Components(name)) : Components(name)[i].t = "Normal"})

ComponentCount(name) == Len(Components(name))

(* Properties of the component strings of the model's alphabet. *)
ByteLen(c) ==
    CASE c = "" -> 0
      [] c \in {"a", "d", "l", "t", "."} -> 1
      [] c = ".." -> 2
      [] c = "CON" -> 3
      [] c = "long256" -> 256
      [] OTHER -> 3

HasControl(c) == c = "a\n"

HasBackslash(c) == c = "a\\b"

(* s.to_ascii_uppercase().split('.').next() *)
UpperStem(c) ==
    CASE c \in {"CON", "con", "con.txt", "Con.tar.gz"} -> "CON"
      [] c \in {"nul", "NUL.txt"} -> "NUL"
      [] c = "lpt1" -> "LPT1"
      [] OTHER -> c

ReservedStems ==
    {"CON", "PRN", "AUX", "NUL",
     "COM1", "COM2", "COM3", "COM4", "COM5", "COM6", "COM7", "COM8", "COM9",
     "LPT1", "LPT2", "LPT3", "LPT4", "LPT5", "LPT6", "LPT7", "LPT8", "LPT9"}

NameByteLen(name) ==
    SeqSum([i \in 1..Len(name) |-> ByteLen(name[i])]) + (Len(name) - 1)

MaxNameBytes == 1024
MaxComponentBytes == 255

(* validate_filename: "ok" or the reason of the rejection *)
ValidateFilename(name) ==
    IF name = <<"">> THEN "empty filename"
    ELSE IF \E i \in 1..Len(name) : HasControl(name[i])
         THEN "contains control characters"
    ELSE IF \E i \in 1..Len(name) : HasBackslash(name[i])
         THEN "contains backslash"
    ELSE IF NameByteLen(name) > MaxNameBytes THEN "path too long (>1024 bytes)"
    ELSE IF \E i \in 1..Len(name) : ByteLen(name[i]) > MaxComponentBytes
         THEN "path component too long (>255 bytes)"
    ELSE IF \E i \in 1..Len(Components(name)) :
                /\ Components(name)[i].t = "Normal"
                /\ UpperStem(Components(name)[i].s) \in ReservedStems
         THEN "Windows reserved name"
    ELSE "ok"

----------------------------------------------------------------------------
(* Entry names as text, for the filename validators.  A name is a sequence
   of runs [c, n]: the character c repeated n times, so that names of more
   than 1024 bytes are within reach.  Every character of the alphabet is one
   byte long. *)

Run(c, n) == [c |-> c, n |-> n]

(* str::len *)
StrLen(s) == SeqSum([i \in 1..Len(s) |-> s[i].n])

(* The characters of the text, one by one *)
RECURSIVE Expand(_)
Expand(s) ==
    IF s = <<>> THEN <<>>
    ELSE [k \in 1..Head(s).n |-> Head(s).c] \o Expand(Tail(s))

(* char::is_control *)
IsControl(ch) == ch = "\n"

(* char::to_ascii_uppercase *)
UpperChar(ch) ==
    CASE ch = "c" -> "C"
      [] ch = "x" -> "X"
      [] OTHER -> ch

(* str::to_ascii_uppercase *)
ToAsciiUppercase(s) == [i \in 1..Len(s) |-> Run(UpperChar(s[i].c), s[i].n)]

(* str::split(sep), collected: the pieces between the separators, empty
   pieces included *)
RECURSIVE SplitFrom(_, _, _, _)
SplitFrom(s, i, sep, cur) ==
    IF i > Len(s) THEN <<cur>>
    ELSE IF s[i].c = sep
    THEN <<cur>> \o [k \in 1..(s[i].n - 1) |-> <<>>] \o SplitFrom(s, i + 1, sep, <<>>)
    ELSE SplitFrom(s, i + 1, sep, Append(cur, s[i]))

Split(s, sep) == SplitFrom(s, 1, sep, <<>>)

(* Path::new(name).components(), the Normal components only: the pieces
   between '/' that are not empty, not "." and not ".." *)
NormalComponents(s) ==
    LET ps == Split(s, "/") IN
    { ps[i] : i \in { j \in 1..Len(ps) :
                        Expand(ps[j]) \notin {<<>>, <<".">>, <<".", ".">>} } }

(* The device names of the match in validate_filename *)
ReservedNames ==
    { <<"C", "O", "N">>, <<"P", "R", "N">>, <<"A", "U", "X">>, <<"N", "U", "L">> }
    \cup { <<"C", "O", "M", d>> : d \in {"1", "2", "3", "4", "5", "6", "7", "8", "9"} }
    \cup { <<"L", "P", "T", d>> : d \in {"1", "2", "3", "4", "5", "6", "7", "8", "9"} }

(* s_upper.split('.').next() *)
FileStem(comp) == Head(Split(ToAsciiUppercase(comp), "."))

(* A validator that compares the stem without folding its case *)
ValidateFilenameCaseSensitive(s) ==
    IF s = <<>> THEN "empty filename"
    ELSE IF \E i \in 1..Len(s) : IsControl(s[i].c)
    THEN "contains control characters"
    ELSE IF \E i \in 1..Len(s) : s[i].c = "\\"
    THEN "contains backslash"
    ELSE IF StrLen(s) > MaxNameBytes THEN "path too long (>1024 bytes)"
    ELSE IF (LET ps == Split(s, "/") IN \E i \in 1..Len(ps) : StrLen(ps[i]) > MaxComponentBytes)
    THEN "path component too long (>255 bytes)"
    ELSE IF \E comp \in NormalComponents(s) :
                Expand(Head(Split(comp, "."))) \in ReservedNames
    THEN "Windows reserved name"
    ELSE "ok"

(* Extractor::validate_filename on the text of a name *)
Extractor_validate_filename(s) ==
    IF s = <<>> THEN "empty filename"
    ELSE IF \E i \in 1..Len(s) : IsControl(s[i].c)
    THEN "contains control characters"
    ELSE IF \E i \in 1..Len(s) : s[i].c = "\\"
    THEN "contains backslash"
    ELSE IF StrLen(s) > MaxNameBytes THEN "path too long (>1024 bytes)"
    ELSE IF (LET ps == Split(s, "/") IN \E i \in 1..Len(ps) : StrLen(ps[i]) > MaxComponentBytes)
    THEN "path component too long (>255 bytes)"
    ELSE IF \E comp \in NormalComponents(s) : Expand(FileStem(comp)) \in ReservedNames
    THEN "Windows reserved name"
    ELSE "ok"

(* PathPolicy::validate_filename on the text of a name *)
PathPolicy_validate_filename(s) ==
    IF s = <<>> THEN "empty filename"
    ELSE IF \E i \in 1..Len(s) : IsControl(s[i].c)
    THEN "contains control characters"
    ELSE IF \E i \in 1..Len(s) : s[i].c = "\\"
    THEN "contains backslash"
    ELSE IF StrLen(s) > MaxNameBytes THEN "path too long (>1024 bytes)"
    ELSE IF (LET ps == Split(s, "/") IN \E i \in 1..Len(ps) : StrLen(ps[i]) > MaxComponentBytes)
    THEN "path component too long (>255 bytes)"
    ELSE IF \E comp \in NormalComponents(s) : Expand(FileStem(comp)) \in ReservedNames
    THEN "Windows reserved name"
    ELSE "ok"

(* What the caller makes of the validator's answer: Ok, or InvalidFilename
   with the entry name and the reason *)
NameAccepted == [kind |-> "Ok", entry |-> <<>>, reason |-> ""]

InvalidFilename(s, reason) == [kind |-> "InvalidFilename", entry |-> s, reason |-> reason]

ExtractorNameCheck(s) ==
    IF Extractor_validate_filename(s) # "ok"
    THEN InvalidFilename(s, Extractor_validate_filename(s))
    ELSE NameAccepted

PathPolicyNameCheck(s) ==
    IF PathPolicy_validate_filename(s) # "ok"
    THEN InvalidFilename(s, PathPolicy_validate_filename(s))
    ELSE NameAccepted

Unasked == [kind |-> "unasked", entry |-> <<>>, reason |-> ""]

NoProbe == [name |-> <<>>, ext |-> Unasked, pol |-> Unasked]

----------------------------------------------------------------------------
(* The path jail *)

Root == <<"dest">>

RECURSIVE Normalize(_, _)
Normalize(cur, cs) ==
    IF cs = <<>> THEN cur
    ELSE LET c == Head(cs) IN
         CASE c.t = "RootDir" -> Normalize(<<>>, Tail(cs))
           [] c.t = "CurDir" -> Normalize(cur, Tail(cs))
           [] c.t = "ParentDir" ->
                Normalize(IF cur = <<>> THEN <<>> ELSE Front(cur), Tail(cs))
           [] OTHER -> Normalize(Append(cur, c.s), Tail(cs))

(* Jail::join: the name joined to the canonical root and normalized must
   start with the root.  Nothing below the root is resolved. *)
JailJoin(name) ==
    LET p == Normalize(Root, Components(name)) IN
    [ok |-> IsPrefix(Root, p), path |-> p]

----------------------------------------------------------------------------
(* The filesystem: what the system calls behind std::fs do *)

DirNode == [kind |-> "dir", target |-> <<>>, ino |-> 0]

FileNode(n) == [kind |-> "file", target |-> <<>>, ino |-> n]

LinkNode(t) == [kind |-> "symlink", target |-> t, ino |-> 0]

(* The kernel ignores empty components and "." *)
KernelComps(p) == SelectSeq(p, LAMBDA c : c \notin {"", "."})

(* Path resolution from directory cur.  follow: whether a symlink in the
   final component is followed.  st is "found" (path is the object),
   "absent" (the parent exists, the final component does not) or an errno. *)
RECURSIVE Walk(_, _, _, _, _)
Walk(f, cur, rest, follow, fuel) ==
    IF rest = <<>> THEN [st |-> "found", path |-> cur]
    ELSE LET c == Head(rest)
             r == Tail(rest)
             nxt == Append(cur, c)
         IN
         IF c = ".." THEN
            Walk(f, IF cur = <<>> THEN <<>> ELSE Front(cur), r, follow, fuel)
         ELSE IF nxt \notin DOMAIN f THEN
            [st |-> IF r = <<>> THEN "absent" ELSE "ENOENT", path |-> nxt]
         ELSE IF f[nxt].kind = "symlink" THEN
            IF r = <<>> /\ ~follow THEN [st |-> "found", path |-> nxt]
            ELSE IF fuel = 0 THEN [st |-> "ELOOP", path |-> nxt]
            ELSE Walk(f, <<>>, KernelComps(f[nxt].target) \o r, follow, fuel - 1)
         ELSE IF f[nxt].kind = "file" THEN
            [st |-> IF r = <<>> THEN "found" ELSE "ENOTDIR", path |-> nxt]
         ELSE Walk(f, nxt, r, follow, fuel)

Resolve(f, p, follow) == Walk(f, <<>>, KernelComps(p), follow, Fuel)

(* Path::is_dir: stat, following symlinks *)
IsDir(f, p) ==
    LET w == Resolve(f, p, TRUE) IN w.st = "found" /\ f[w.path].kind = "dir"

(* mkdir(2) *)
MkDir(f, p) ==
    LET w == Resolve(f, p, FALSE) IN
    IF w.st = "absent" THEN [st |-> "ok", fs |-> (w.path :> DirNode) @@ f]
    ELSE IF w.st = "found" THEN [st |-> "EEXIST", fs |-> f]
    ELSE [st |-> w.st, fs |-> f]

(* Path::parent: the path without its final component *)
ParentOf(p) == Front(KernelComps(p))

(* std::fs::create_dir_all *)
RECURSIVE CreateDirAll(_, _)
CreateDirAll(f, p) ==
    LET k == KernelComps(p)
        m == MkDir(f, k)
    IN
    IF k = <<>> THEN [ok |-> TRUE, fs |-> f]
    ELSE IF m.st = "ok" THEN [ok |-> TRUE, fs |-> m.fs]
    ELSE IF m.st = "ENOENT" THEN
        LET up == CreateDirAll(f, Front(k)) IN
        IF ~up.ok THEN up
        ELSE LET m2 == MkDir(up.fs, k) IN
             IF m2.st = "ok" THEN [ok |-> TRUE, fs |-> m2.fs]
             ELSE [ok |-> IsDir(up.fs, k), fs |-> up.fs]
    ELSE [ok |-> IsDir(f, k), fs |-> f]

(* A new inode: empty, default permission bits (0o644: 0o666 under umask 022) *)
DefaultMode == 420

NewInode(by) == [src |-> 0, len |-> 0, mode |-> DefaultMode, by |-> by]

(* An open with O_CREAT but without O_EXCL: an existing file, also behind a
   symlink, is opened as it is *)
OpenWithoutExcl(f, ino, p, by) ==
    LET w == Resolve(f, p, TRUE)
        n == Len(ino) + 1
    IN
    IF w.st = "absent" THEN
        [st |-> "ok", fs |-> (w.path :> FileNode(n)) @@ f,
         inodes |-> Append(ino, NewInode(by)), h |-> n]
    ELSE IF w.st = "found" /\ f[w.path].kind = "file" THEN
        [st |-> "ok", fs |-> f, inodes |-> ino, h |-> f[w.path].ino]
    ELSE [st |-> "EISDIR", fs |-> f, inodes |-> ino, h |-> 0]

(* OpenOptions::new().write(true).create_new(true).open(p):
   open(2) with O_CREAT|O_EXCL.  A symlink in the final component is not
   followed: the call fails with EEXIST when anything has that name. *)
OpenCreateNew(f, ino, p, by) ==
    LET w == Resolve(f, p, FALSE)
        n == Len(ino) + 1
    IN
    IF w.st = "absent" THEN
        [st |-> "ok", fs |-> (w.path :> FileNode(n)) @@ f,
         inodes |-> Append(ino, NewInode(by)), h |-> n]
    ELSE IF w.st = "found" THEN [st |-> "EEXIST", fs |-> f, inodes |-> ino, h |-> 0]
    ELSE [st |-> w.st, fs |-> f, inodes |-> ino, h |-> 0]

(* File::create(p): open(2) with O_CREAT|O_TRUNC, following symlinks *)
OpenTruncate(f, ino, p, by) ==
    LET k == KernelComps(p)
        w == Resolve(f, p, TRUE)
        n == Len(ino) + 1
    IN
    IF k = <<>> \/ Last(k) = ".." THEN [st |-> "EISDIR", fs |-> f, inodes |-> ino, h |-> 0]
    ELSE IF w.st = "absent" THEN
        [st |-> "ok", fs |-> (w.path :> FileNode(n)) @@ f,
         inodes |-> Append(ino, NewInode(by)), h |-> n]
    ELSE IF w.st = "found" THEN
        IF f[w.path].kind = "file" THEN
            [st |-> "ok", fs |-> f,
             inodes |-> [ino EXCEPT ![f[w.path].ino].len = 0, ![f[w.path].ino].src = 0],
             h |-> f[w.path].ino]
        ELSE [st |-> "EISDIR", fs |-> f, inodes |-> ino, h |-> 0]
    ELSE [st |-> w.st, fs |-> f, inodes |-> ino, h |-> 0]

(* fs::symlink_metadata(p).file_type().is_symlink() *)
IsSymlink(f, p) ==
    LET w == Resolve(f, p, FALSE) IN
    w.st = "found" /\ f[w.path].kind = "symlink"

(* fs::remove_file(p): unlink(2); its error is ignored by the callers *)
RemoveFile(f, p) ==
    LET w == Resolve(f, p, FALSE) IN
    IF w.st = "found" /\ f[w.path].kind # "dir"
    THEN [q \in DOMAIN f \ {w.path} |-> f[q]]
    ELSE f

(* fs::set_permissions(p, mode): chmod(2), following symlinks *)
SetPermissions(f, ino, p, mode) ==
    LET w == Resolve(f, p, TRUE) IN
    IF w.st # "found" THEN [ok |-> FALSE, inodes |-> ino]
    ELSE IF f[w.path].kind = "file"
         THEN [ok |-> TRUE, inodes |-> [ino EXCEPT ![f[w.path].ino].mode = mode]]
         ELSE [ok |-> TRUE, inodes |-> ino]

----------------------------------------------------------------------------
(* Errors *)

NoErr == [kind |-> "none", entry |-> <<>>, a |-> 0, b |-> 0]

Err(kind, entry, a, b) == [kind |-> kind, entry |-> entry, a |-> a, b |-> b]

(* The first error of a sequence of check results, NoErr when all passed *)
RECURSIVE FirstErr(_)
FirstErr(rs) ==
    IF rs = <<>> THEN NoErr
    ELSE IF Head(rs) # NoErr THEN Head(rs)
    ELSE FirstErr(Tail(rs))

----------------------------------------------------------------------------
(* The policies of policy.rs *)

PathPolicyCheck(e) ==
    IF ValidateFilename(e.name) # "ok" THEN Err("InvalidFilename", e.name, 0, 0)
    ELSE IF ~JailJoin(e.name).ok THEN Err("PathEscape", e.name, 0, 0)
    ELSE NoErr

(* u64::MAX, for a u64 of WordBits bits *)
U64Max == 2 ^ WordBits - 1

(* a + b on u64 values: what the build can give.  On overflow a build with
   overflow checks panics and a build without them wraps around. *)
AddU64(a, b) ==
    IF a + b <= U64Max THEN {[panic |-> FALSE, v |-> a + b]}
    ELSE {[panic |-> TRUE, v |-> 0], [panic |-> FALSE, v |-> (a + b) % (U64Max + 1)]}

(* The comparison of the sum with max_total_bytes *)
TotalCheck(sum, c) ==
    IF sum.panic THEN Err("panic", <<>>, 0, 0)
    ELSE IF sum.v > c.max_total_bytes
    THEN Err("TotalSizeExceeded", <<>>, c.max_total_bytes, sum.v)
    ELSE NoErr

(* SizePolicy::check: every answer the build can give *)
SizePolicyOutcomes(e, st, c) ==
    IF e.size > c.max_single_file
    THEN {Err("FileTooLarge", e.name, c.max_single_file, e.size)}
    ELSE {TotalCheck(sum, c) : sum \in AddU64(st.bytes_written, e.size)}

(* Extractor::extract, the declared-size checks: every answer the build can
   give *)
ExtractorSizeOutcomes(e, st, c) ==
    IF e.kind # "Directory" /\ e.size > c.max_single_file
    THEN {Err("FileTooLarge", e.name, c.max_single_file, e.size)}
    ELSE {TotalCheck(sum, c) : sum \in AddU64(st.bytes_written, e.size)}

(* SizePolicy::check; one answer wherever the sum does not overflow *)
SizePolicyCheck(e, st, c) == CHOOSE r \in SizePolicyOutcomes(e, st, c) : TRUE

(* A count check that lets the entry pass when the limit is just reached *)
CountPolicyCheckExclusive(e, st, c) ==
    IF st.files_extracted > c.max_file_count
    THEN Err("FileCountExceeded", <<>>, c.max_file_count, st.files_extracted + 1)
    ELSE NoErr

(* CountPolicy::check *)
CountPolicyCheck(e, st, c) ==
    IF st.files_extracted >= c.max_file_count
    THEN Err("FileCountExceeded", <<>>, c.max_file_count, st.files_extracted + 1)
    ELSE NoErr

DepthPolicyCheck(e, c) ==
    IF ComponentCount(e.name) > c.max_path_depth
    THEN Err("PathTooDeep", e.name, ComponentCount(e.name), c.max_path_depth)
    ELSE NoErr

SymlinkPolicyCheck(e, c) ==
    IF e.kind = "Symlink" /\ c.symlinks = "Error"
    THEN Err("SymlinkNotAllowed", e.name, 0, 0)
    ELSE NoErr

(* Policy::check of the policy of that name *)
PolicyCheck(name, e, st, c) ==
    CASE name = "Path" -> PathPolicyCheck(e)
      [] name = "Size" -> SizePolicyCheck(e, st, c)
      [] name = "Count" -> CountPolicyCheck(e, st, c)
      [] name = "Depth" -> DepthPolicyCheck(e, c)
      [] name = "Symlink" -> SymlinkPolicyCheck(e, c)

(* A chain built with the depth policy in front *)
BuildPoliciesDepthFirst == <<"Depth", "Path", "Size", "Count", "Symlink">>

(* Driver::build_policies, PolicyConfig::build: the chain, in the order of
   the with(...) calls *)
BuildPolicies == <<"Path", "Size", "Count", "Depth", "Symlink">>

(* Driver::build_policies with PolicyChain::check_all: the policies in the
   order they were added, stopping at the first failure *)
CheckAll(e, st, c) ==
    FirstErr([i \in 1..Len(BuildPolicies) |-> PolicyCheck(BuildPolicies[i], e, st, c)])

----------------------------------------------------------------------------
(* The checks made on an entry before anything is written.
   res: "proceed" (materialize the entry), "skip" (count it as skipped) or
   "fail" (abort with err).  accept is the filter's verdict on the entry. *)

Outcome(res, e) == [res |-> res, err |-> e]

(* The Extractor's checks with the filter asked after the limits *)
ExtractorCheckFilterLast(e, st, c, accept) ==
    IF ValidateFilename(e.name) # "ok"
    THEN Outcome("fail", Err("InvalidFilename", e.name, 0, 0))
    ELSE IF ~JailJoin(e.name).ok
    THEN Outcome("fail", Err("PathEscape", e.name, 0, 0))
    ELSE IF e.kind = "Symlink"
    THEN (IF c.symlinks = "Error"
          THEN Outcome("fail", Err("SymlinkNotAllowed", e.name, 0, 0))
          ELSE Outcome("skip", NoErr))
    ELSE IF NormalCount(e.name) > c.max_path_depth
    THEN Outcome("fail", Err("PathTooDeep", e.name, NormalCount(e.name), c.max_path_depth))
    ELSE IF st.files_extracted >= c.max_file_count
    THEN Outcome("fail", Err("FileCountExceeded", <<>>, c.max_file_count,
                             st.files_extracted + 1))
    ELSE IF e.kind # "Directory" /\ e.size > c.max_single_file
    THEN Outcome("fail", Err("FileTooLarge", e.name, c.max_single_file, e.size))
    ELSE IF st.bytes_written + e.size > c.max_total_bytes
    THEN Outcome("fail", Err("TotalSizeExceeded", <<>>, c.max_total_bytes,
                             st.bytes_written + e.size))
    ELSE IF ~accept
    THEN Outcome("skip", NoErr)
    ELSE Outcome("proceed", NoErr)

(* The Extractor's checks without the symlink step *)
ExtractorCheckNoSymlinkStep(e, st, c, accept) ==
    IF ValidateFilename(e.name) # "ok"
    THEN Outcome("fail", Err("InvalidFilename", e.name, 0, 0))
    ELSE IF ~JailJoin(e.name).ok
    THEN Outcome("fail", Err("PathEscape", e.name, 0, 0))
    ELSE IF NormalCount(e.name) > c.max_path_depth
    THEN Outcome("fail", Err("PathTooDeep", e.name, NormalCount(e.name), c.max_path_depth))
    ELSE IF ~accept
    THEN Outcome("skip", NoErr)
    ELSE IF st.files_extracted >= c.max_file_count
    THEN Outcome("fail", Err("FileCountExceeded", <<>>, c.max_file_count,
                             st.files_extracted + 1))
    ELSE IF e.kind # "Directory" /\ e.size > c.max_single_file
    THEN Outcome("fail", Err("FileTooLarge", e.name, c.max_single_file, e.size))
    ELSE IF st.bytes_written + e.size > c.max_total_bytes
    THEN Outcome("fail", Err("TotalSizeExceeded", <<>>, c.max_total_bytes,
                             st.bytes_written + e.size))
    ELSE Outcome("proceed", NoErr)

(* Extractor::extract, steps 0 to 5 *)
ExtractorCheck(e, st, c, accept) ==
    IF ValidateFilename(e.name) # "ok"
    THEN Outcome("fail", Err("InvalidFilename", e.name, 0, 0))
    ELSE IF ~JailJoin(e.name).ok
    THEN Outcome("fail", Err("PathEscape", e.name, 0, 0))
    ELSE IF e.kind = "Symlink"
    THEN (IF c.symlinks = "Error"
          THEN Outcome("fail", Err("SymlinkNotAllowed", e.name, 0, 0))
          ELSE Outcome("skip", NoErr))
    ELSE IF NormalCount(e.name) > c.max_path_depth
    THEN Outcome("fail", Err("PathTooDeep", e.name, NormalCount(e.name), c.max_path_depth))
    ELSE IF ~accept
    THEN Outcome("skip", NoErr)
    ELSE IF st.files_extracted >= c.max_file_count
    THEN Outcome("fail", Err("FileCountExceeded", <<>>, c.max_file_count,
                             st.files_extracted + 1))
    ELSE LET r == CHOOSE x \in ExtractorSizeOutcomes(e, st, c) : TRUE IN
         IF r # NoErr THEN Outcome("fail", r)
         ELSE Outcome("proceed", NoErr)

(* A Driver that lets a symlink entry fall through to the match on its
   kind, where nothing is done and nothing is counted *)
DriverCheckSymlinkUncounted(e, st, c, accept) ==
    IF ~accept THEN Outcome("skip", NoErr)
    ELSE IF CheckAll(e, st, c) # NoErr THEN Outcome("fail", CheckAll(e, st, c))
    ELSE Outcome("proceed", NoErr)

(* Driver::extract_zip_entry, Driver::extract_tar_entry and
   Driver::extract_tar_entry_data: the filter, the policy chain, the
   symlink skip *)
DriverCheck(e, st, c, accept) ==
    IF ~accept THEN Outcome("skip", NoErr)
    ELSE IF CheckAll(e, st, c) # NoErr THEN Outcome("fail", CheckAll(e, st, c))
    ELSE IF e.kind = "Symlink" THEN Outcome("skip", NoErr)
    ELSE Outcome("proceed", NoErr)

EntryCheck(eng, e, st, c, accept) ==
    IF eng = "Extractor" THEN ExtractorCheck(e, st, c, accept)
    ELSE IF e.kind = "Unsupported"
    THEN Outcome("fail", Err("UnsupportedEntryType", e.name, 0, 0))
    ELSE DriverCheck(e, st, c, accept)

----------------------------------------------------------------------------
(* The validation pass of ValidateFirst *)

(* Extractor::validate_all, one entry: the error, or the totals with the
   entry added *)
ExtractorValidateEntry(e, vs, c) ==
    IF ValidateFilename(e.name) # "ok"
    THEN [err |-> Err("InvalidFilename", e.name, 0, 0), vs |-> vs]
    ELSE IF ~JailJoin(e.name).ok
    THEN [err |-> Err("PathEscape", e.name, 0, 0), vs |-> vs]
    ELSE IF e.kind = "Symlink" /\ c.symlinks = "Error"
    THEN [err |-> Err("SymlinkNotAllowed", e.name, 0, 0), vs |-> vs]
    ELSE IF NormalCount(e.name) > c.max_path_depth
    THEN [err |-> Err("PathTooDeep", e.name, NormalCount(e.name), c.max_path_depth),
          vs |-> vs]
    ELSE IF e.kind # "Directory" /\ e.size > c.max_single_file
    THEN [err |-> Err("FileTooLarge", e.name, c.max_single_file, e.size), vs |-> vs]
    ELSE [err |-> NoErr,
          vs |-> IF e.kind = "File"
                 THEN [bytes_written |-> vs.bytes_written + e.size,
                       files_extracted |-> vs.files_extracted + 1]
                 ELSE vs]

(* Extractor::validate_all, after the loop: the accumulated totals *)
ExtractorValidateTotals(vs, c) ==
    IF vs.bytes_written > c.max_total_bytes
    THEN Err("TotalSizeExceeded", <<>>, c.max_total_bytes, vs.bytes_written)
    ELSE IF vs.files_extracted > c.max_file_count
    THEN Err("FileCountExceeded", <<>>, c.max_file_count, vs.files_extracted)
    ELSE NoErr

(* Driver::validate_all_zip and the validation loop of Driver::extract_tar *)
DriverValidateEntry(e, vs, c) ==
    IF CheckAll(e, vs, c) # NoErr THEN [err |-> CheckAll(e, vs, c), vs |-> vs]
    ELSE [err |-> NoErr,
          vs |-> IF e.kind = "File"
                 THEN [bytes_written |-> vs.bytes_written + e.size,
                       files_extracted |-> vs.files_extracted + 1]
                 ELSE vs]

ValidateEntry(eng, e, vs, c) ==
    IF eng = "Extractor" THEN ExtractorValidateEntry(e, vs, c)
    ELSE DriverValidateEntry(e, vs, c)

ValidateTotals(eng, vs, c) ==
    IF eng = "Extractor" THEN ExtractorValidateTotals(vs, c) ELSE NoErr

----------------------------------------------------------------------------
(* Materializing an entry *)

(* A join under the directory the other extraction works in *)
SafePathInSharedDir(name) == <<"out">> \o name

(* self.root.join(&name) / self.destination.join(&info.name): PathBuf::join
   replaces the base when the joined path is absolute *)
SafePath(name) == IF IsAbsolute(name) THEN name ELSE Root \o name

(* An open per overwrite policy that leaves a symlink in place under
   Overwrite *)
OpenForWriteThroughLink(f, ino, p, ow) ==
    IF ow = "Overwrite" THEN
        LET o == OpenTruncate(f, ino, p, "ext") IN
        [st |-> IF o.st = "ok" THEN "ok" ELSE "Io",
         fs |-> o.fs, inodes |-> o.inodes, h |-> o.h]
    ELSE
        LET o == OpenCreateNew(f, ino, p, "ext") IN
        [st |-> IF o.st = "ok" THEN "ok"
                ELSE IF o.st = "EEXIST"
                     THEN (IF ow = "Error" THEN "AlreadyExists" ELSE "skip")
                ELSE "Io",
         fs |-> o.fs, inodes |-> o.inodes, h |-> o.h]

(* An open per overwrite policy for which Error truncates what exists *)
OpenForWriteTruncating(f, ino, p, ow) ==
    IF ow \in {"Overwrite", "Error"} THEN
        LET f1 == IF IsSymlink(f, p) THEN RemoveFile(f, p) ELSE f
            o == OpenTruncate(f1, ino, p, "ext")
        IN [st |-> IF o.st = "ok" THEN "ok" ELSE "Io",
            fs |-> o.fs, inodes |-> o.inodes, h |-> o.h]
    ELSE
        LET o == OpenCreateNew(f, ino, p, "ext") IN
        [st |-> IF o.st = "ok" THEN "ok"
                ELSE IF o.st = "EEXIST" THEN "skip"
                ELSE "Io",
         fs |-> o.fs, inodes |-> o.inodes, h |-> o.h]

(* An open per overwrite policy for which Skip truncates what exists *)
OpenForWriteSkipTruncating(f, ino, p, ow) ==
    IF ow \in {"Overwrite", "Skip"} THEN
        LET f1 == IF IsSymlink(f, p) THEN RemoveFile(f, p) ELSE f
            o == OpenTruncate(f1, ino, p, "ext")
        IN [st |-> IF o.st = "ok" THEN "ok" ELSE "Io",
            fs |-> o.fs, inodes |-> o.inodes, h |-> o.h]
    ELSE
        LET o == OpenCreateNew(f, ino, p, "ext") IN
        [st |-> IF o.st = "ok" THEN "ok"
                ELSE IF o.st = "EEXIST" THEN "AlreadyExists"
                ELSE "Io",
         fs |-> o.fs, inodes |-> o.inodes, h |-> o.h]

(* The open of the output file per overwrite policy (Extractor::extract
   step 7, Driver::extract_zip_entry, Driver::open_for_write).
   st: "ok", "skip", "AlreadyExists" or "Io" *)
OpenForWrite(f, ino, p, ow) ==
    IF ow = "Overwrite" THEN
        LET f1 == IF IsSymlink(f, p) THEN RemoveFile(f, p) ELSE f
            o == OpenTruncate(f1, ino, p, "ext")
        IN [st |-> IF o.st = "ok" THEN "ok" ELSE "Io",
            fs |-> o.fs, inodes |-> o.inodes, h |-> o.h]
    ELSE
        LET o == OpenCreateNew(f, ino, p, "ext") IN
        [st |-> IF o.st = "ok" THEN "ok"
                ELSE IF o.st = "EEXIST"
                     THEN (IF ow = "Error" THEN "AlreadyExists" ELSE "skip")
                ELSE "Io",
         fs |-> o.fs, inodes |-> o.inodes, h |-> o.h]

(* The limit handed to the copy of one entry *)
ExtractorHardLimit(e, st, c) ==
    Min(Min(c.max_single_file, e.size), SatSub(c.max_total_bytes, st.bytes_written))

DriverLimit(st, c) ==
    Min(c.max_single_file, SatSub(c.max_total_bytes, st.bytes_written))

(* io::copy through LimitReader, copy_limited: the bytes that reach the
   output file from a stream of `actual` bytes *)
LimitedCopy(actual, limit) == Min(actual, limit)

(* ZipAdapter::extract_to(index, writer, limit): writes the decompressed
   bytes, at most limit of them, and returns the count *)
ZipExtractTo(actual, limit) == Min(actual, limit)

(* LimitReader.hit_limit after io::copy has drained it *)
HitLimit(actual, limit) == actual >= limit

(* Bytes written to the output file for entry e *)
CopyBytes(eng, vf, e, cached, st, c) ==
    IF eng = "Extractor" THEN LimitedCopy(e.actual, ExtractorHardLimit(e, st, c))
    ELSE IF eng = "DriverTar" /\ vf THEN cached
    ELSE IF eng = "DriverTar" THEN LimitedCopy(e.actual, DriverLimit(st, c))
    ELSE ZipExtractTo(e.actual, DriverLimit(st, c))

(* Extractor::extract after the copy: the attribution of a hit limit and
   the one-byte probe.  NoErr when the entry is to be committed *)
ExtractorVerify(e, w, st, c) ==
    LET remaining == SatSub(c.max_total_bytes, st.bytes_written)
        hit == HitLimit(e.actual, ExtractorHardLimit(e, st, c))
    IN
    IF hit /\ w >= c.max_single_file /\ e.size > c.max_single_file
    THEN Err("FileTooLarge", e.name, c.max_single_file, w + 1)
    ELSE IF hit /\ remaining <= w /\ w < e.size
    THEN Err("TotalSizeExceeded", <<>>, c.max_total_bytes, st.bytes_written + w + 1)
    ELSE IF w = e.size /\ e.actual > w
    THEN Err("SizeMismatch", e.name, e.size, e.size + 1)
    ELSE NoErr

(* The Driver commits whatever was copied *)
DriverVerify(e, w, st, c) == NoErr

VerifyCopy(eng, e, w, st, c) ==
    IF eng = "Extractor" THEN ExtractorVerify(e, w, st, c)
    ELSE DriverVerify(e, w, st, c)

(* mode & 0o777 *)
SafeMode(mode) == mode % 512

(* The permission step: chmod to the masked mode when the entry has one *)
ApplyMode(f, ino, p, e) ==
    IF e.mode >= 0 THEN SetPermissions(f, ino, p, SafeMode(e.mode))
    ELSE [ok |-> TRUE, inodes |-> ino]

IoErr(e) == Err("Io", e.name, 0, 0)

----------------------------------------------------------------------------
(* Initial states: the destinations, archives and settings explored *)

OldFile(mode) == [src |-> -1, len |-> 1, mode |-> mode, by |-> "pre"]

(* "/", the destination "/dest", and "/out/t" outside of it *)
BaseFs ==
    (<<>> :> DirNode) @@ (<<"dest">> :> DirNode) @@ (<<"out">> :> DirNode)
    @@ (<<"out", "t">> :> FileNode(1))

BaseInodes == <<OldFile(DefaultMode)>>

Disk(f, ino) == [fs |-> f, inodes |-> ino]

EmptyDest == Disk(BaseFs, BaseInodes)

(* /dest/a is a file with the sticky bit (0o1644) *)
WithFile ==
    Disk((<<"dest", "a">> :> FileNode(2)) @@ BaseFs, Append(BaseInodes, OldFile(932)))

(* /dest/l -> /out/t *)
WithFileLink ==
    Disk((<<"dest", "l">> :> LinkNode(<<"out", "t">>)) @@ BaseFs, BaseInodes)

(* /dest/d -> /out *)
WithDirLink ==
    Disk((<<"dest", "d">> :> LinkNode(<<"out">>)) @@ BaseFs, BaseInodes)

(* /dest/d/a is a file *)
WithSubdir ==
    Disk((<<"dest", "d">> :> DirNode) @@ (<<"dest", "d", "a">> :> FileNode(2))
         @@ BaseFs, Append(BaseInodes, OldFile(DefaultMode)))

PathDisks == {EmptyDest, WithFile, WithFileLink, WithDirLink, WithSubdir}

SizeDisks == {EmptyDest, WithFile}

EntryOf(name, kind, size, actual, mode) ==
    [name |-> name, kind |-> kind, size |-> size, actual |-> actual, mode |-> mode,
     enc |-> FALSE]

(* The entry with the encryption flag set *)
Encrypted(e) == [e EXCEPT !.enc = TRUE]

(* ZIP entries with and without the encryption flag *)
ZipEntries ==
    { EntryOf(<<"a">>, "File", 1, 1, 420),
      Encrypted(EntryOf(<<"t">>, "File", 1, 1, 420)),
      EntryOf(<<"d">>, "Directory", 0, 0, -1),
      EntryOf(<<"l">>, "Symlink", 0, 0, -1) }

(* zip::ZipArchive::by_index: what the call may give.  The zip crate is a
   dependency; for an entry with the encryption flag and no password the
   call either fails with a ZipError or hands out the entry. *)
ByIndex(e) == IF e.enc THEN {"ZipError", "entry"} ELSE {"entry"}

(* A translation of the TAR entry types that takes a FIFO for a file *)
TarKindFifoAsFile(t) ==
    CASE t \in {"Regular", "Continuous", "Fifo"} -> "File"
      [] t = "Link" -> "Symlink"
      [] t \in {"File", "Directory", "Symlink"} -> t
      [] OTHER -> "Unsupported"

(* TarAdapter: the EntryKind of a TAR entry type.  "File", "Directory" and
   "Symlink" are the regular file, directory and symlink types of the pools
   shared with the ZIP engines. *)
TarKind(t) ==
    CASE t \in {"Regular", "Continuous"} -> "File"
      [] t = "Link" -> "Symlink"
      [] t \in {"File", "Directory", "Symlink"} -> t
      [] OTHER -> "Unsupported"

(* TAR entries of every group of types *)
TarEntries ==
    { EntryOf(<<"a">>, "Regular", 1, 1, 420),
      EntryOf(<<"d", "a">>, "Continuous", 1, 1, -1),
      EntryOf(<<"l">>, "Link", 0, 0, -1),
      EntryOf(<<"t">>, "Fifo", 0, 0, 420),
      EntryOf(<<"d">>, "Block", 0, 0, 420) }

(* Entries that differ in their names and kinds; sizes are honest *)
PathEntries ==
    { EntryOf(<<"a">>, "File", 1, 1, 2541),
      EntryOf(<<"l">>, "File", 1, 1, -1),
      EntryOf(<<"d", "a">>, "File", 1, 1, -1),
      EntryOf(<<"d">>, "Directory", 0, 0, -1),
      EntryOf(<<"l">>, "Symlink", 0, 0, -1),
      EntryOf(<<"..", "a">>, "File", 1, 1, -1),
      EntryOf(<<"d", "..", "..", "a">>, "File", 1, 1, -1),
      EntryOf(<<"d", "..", "a">>, "File", 1, 1, -1),
      EntryOf(<<"", "out", "a">>, "File", 1, 1, -1),
      EntryOf(<<"CON">>, "File", 1, 1, -1),
      EntryOf(<<"d", "d", "a">>, "File", 1, 1, -1),
      EntryOf(<<"d", "d", "l">>, "Symlink", 0, 0, -1) }

(* Entries that differ in declared size, content length and mode *)
SizeEntries ==
    { EntryOf(<<"a">>, "File", 1, 1, 420),
      EntryOf(<<"a">>, "File", 1, 2, -1),
      EntryOf(<<"a">>, "File", 2, 2, 3565),
      EntryOf(<<"a">>, "File", 2, 1, -1),
      EntryOf(<<"b">>, "File", 1, 1, -1),
      EntryOf(<<"b">>, "File", 0, 2, -1),
      EntryOf(<<"b">>, "File", 2, 3, -1),
      EntryOf(<<"d">>, "Directory", 0, 0, -1) }

Archives(pool) == UNION {[1..n -> pool] : n \in 0..MaxEntries}

Engines == {"Extractor", "DriverZip", "DriverTar"}

PathConfigs ==
    [overwrite : {"Error", "Skip", "Overwrite"},
     symlinks : {"Skip", "Error"},
     mode : {"Streaming", "ValidateFirst"},
     max_total_bytes : {4},
     max_single_file : {2},
     max_file_count : {2},
     max_path_depth : {2}]

TarConfigs ==
    { c \in PathConfigs : c.overwrite = "Error" }
    \cup { [c EXCEPT !.max_file_count = 0] : c \in { x \in PathConfigs : x.overwrite = "Error" } }

SizeConfigs ==
    [overwrite : {"Error", "Skip", "Overwrite"},
     symlinks : {"Skip"},
     mode : {"Streaming", "ValidateFirst"},
     max_total_bytes : {2, 3},
     max_single_file : {1, 2},
     max_file_count : {1, 2},
     max_path_depth : {2}]

ZeroReport ==
    [files_extracted |-> 0, dirs_created |-> 0, bytes_written |-> 0,
     entries_skipped |-> 0]

ZeroState == [bytes_written |-> 0, files_extracted |-> 0]

ZeroVerifyReport == [entries_verified |-> 0, bytes_verified |-> 0]

(* The disk of the extraction running alone, with the handle of its open
   file, and whether every file system call has so far given the extraction
   the answer it gives the extraction running alone *)
SoloStart(d) == [fs |-> d.fs, inodes |-> d.inodes, handle |-> 0, same |-> TRUE]

Start(eng, c, ar, d) ==
    /\ engine = eng
    /\ cfg = c
    /\ archive = ar
    /\ fs = d.fs
    /\ inodes = d.inodes
    /\ pc = "start"
    /\ idx = 1
    /\ report = ZeroReport
    /\ err = NoErr
    /\ handle = 0
    /\ written = 0
    /\ vstate = ZeroState
    /\ cache = <<>>
    /\ accepted = "unasked"
    /\ envSteps = 0
    /\ fs0 = d.fs
    /\ inodes0 = d.inodes
    /\ probe = NoProbe
    /\ vreport = ZeroVerifyReport
    /\ solo = SoloStart(d)

Init ==
    \/ \E eng \in Engines, c \in PathConfigs, ar \in Archives(PathEntries),
          d \in PathDisks : Start(eng, c, ar, d)
    \/ \E eng \in Engines, c \in SizeConfigs, ar \in Archives(SizeEntries),
          d \in SizeDisks : Start(eng, c, ar, d)
    \/ \E c \in TarConfigs, ar \in Archives(TarEntries) :
          Start("DriverTar", c, ar, EmptyDest)
    \/ \E eng \in {"Extractor", "Verify"}, c \in TarConfigs,
          ar \in Archives(ZipEntries) : Start(eng, c, ar, EmptyDest)

----------------------------------------------------------------------------
(* The extraction as a state machine *)

(* The file system calls of the extraction, made on the disk of the
   extraction running alone *)
SoloCreateDirAll(p) ==
    LET r == CreateDirAll(solo.fs, p) IN
    [solo EXCEPT !.fs = r.fs,
                 !.same = @ /\ (r.ok = CreateDirAll(fs, p).ok)]

SoloOpen(p, ow) ==
    LET o == OpenForWrite(solo.fs, solo.inodes, p, ow) IN
    [fs |-> o.fs, inodes |-> o.inodes,
     handle |-> IF o.st = "ok" THEN o.h ELSE solo.handle,
     same |-> solo.same /\ (o.st = OpenForWrite(fs, inodes, p, ow).st)]

SoloWrite(w, i) ==
    IF solo.handle \in DOMAIN solo.inodes
    THEN [solo EXCEPT !.inodes[solo.handle].len = w,
                      !.inodes[solo.handle].src = IF w = 0 THEN 0 ELSE i]
    ELSE solo

SoloApplyMode(p, e) ==
    LET m == ApplyMode(solo.fs, solo.inodes, p, e) IN
    [solo EXCEPT !.inodes = m.inodes,
                 !.handle = 0,
                 !.same = @ /\ (m.ok = ApplyMode(fs, inodes, p, e).ok)]

(* The entry as the engine sees it: the TAR adapter translates the type *)
Entry ==
    IF engine = "DriverTar"
    THEN [archive[idx] EXCEPT !.kind = TarKind(@)]
    ELSE archive[idx]

IsValidateFirst == cfg.mode = "ValidateFirst"

(* Whether the code reaches the filter call for the entry *)
FilterConsulted(eng, e, c) ==
    IF eng = "Extractor"
    THEN /\ ValidateFilename(e.name) = "ok"
         /\ JailJoin(e.name).ok
         /\ e.kind # "Symlink"
         /\ NormalCount(e.name) <= c.max_path_depth
    ELSE e.kind # "Unsupported"

(* Extractor writes every entry that is not a directory as a file; the
   Driver matches on the kind and does nothing for a symlink *)
WrittenAsFile(eng, e) ==
    e.kind = "File" \/ (eng = "Extractor" /\ e.kind # "Directory")

(* An error that is recorded while the extraction goes on *)
FailAndGoOn(e) ==
    /\ pc' = "check"
    /\ err' = e

(* The error is returned to the caller: the extraction is over *)
Fail(e) ==
    /\ pc' = "failed"
    /\ err' = e

(* Extractor::extract / Driver::extract_zip / Driver::extract_tar: entry *)
Begin ==
    /\ pc = "start"
    /\ pc' = IF engine = "Verify" THEN "verify"
             ELSE IF IsValidateFirst
             THEN (IF engine = "DriverTar" THEN "cache" ELSE "validate")
             ELSE "check"
    /\ UNCHANGED <<engine, cfg, archive, fs, inodes, idx, report, err, handle,
                   written, vstate, cache, accepted, envSteps, fs0, inodes0, probe, vreport, solo>>

(* TarAdapter::cache_all, one entry: its content is read into memory *)
CacheEntry ==
    /\ pc = "cache"
    /\ idx <= Len(archive)
    /\ IF Entry.kind = "Unsupported"
       THEN /\ Fail(Err("UnsupportedEntryType", Entry.name, 0, 0))
            /\ UNCHANGED <<cache, idx>>
       ELSE /\ cache' = Append(cache, IF Entry.kind = "File" THEN Entry.actual ELSE 0)
            /\ idx' = idx + 1
            /\ UNCHANGED <<pc, err>>
    /\ UNCHANGED <<engine, cfg, archive, fs, inodes, report, handle,
                   written, vstate, accepted, envSteps, fs0, inodes0, probe, vreport, solo>>

CacheEnd ==
    /\ pc = "cache"
    /\ idx > Len(archive)
    /\ pc' = "validate"
    /\ idx' = 1
    /\ UNCHANGED <<engine, cfg, archive, fs, inodes, report, err, handle,
                   written, vstate, cache, accepted, envSteps, fs0, inodes0, probe, vreport, solo>>

(* The validation pass, one entry *)
ValidateStep ==
    /\ pc = "validate"
    /\ idx <= Len(archive)
    /\ LET r == ValidateEntry(engine, Entry, vstate, cfg) IN
       IF r.err # NoErr
       THEN /\ Fail(r.err)
            /\ UNCHANGED <<vstate, idx>>
       ELSE /\ vstate' = r.vs
            /\ idx' = idx + 1
            /\ UNCHANGED <<pc, err>>
    /\ UNCHANGED <<engine, cfg, archive, fs, inodes, report, handle,
                   written, cache, accepted, envSteps, fs0, inodes0, probe, vreport, solo>>

(* The end of the validation pass *)
ValidateEnd ==
    /\ pc = "validate"
    /\ idx > Len(archive)
    /\ LET t == ValidateTotals(engine, vstate, cfg) IN
       IF t # NoErr
       THEN /\ Fail(t)
            /\ UNCHANGED idx
       ELSE /\ pc' = "check"
            /\ idx' = 1
            /\ UNCHANGED err
    /\ UNCHANGED <<engine, cfg, archive, fs, inodes, report, handle,
                   written, vstate, cache, accepted, envSteps, fs0, inodes0, probe, vreport, solo>>

(* The checks on the next entry: filter, policies, symlink step *)
CheckStep ==
    /\ pc = "check"
    /\ idx <= Len(archive)
    /\ \E got \in (IF engine = "Extractor" THEN ByIndex(Entry) ELSE {"entry"}),
          accept \in (IF FilterConsulted(engine, Entry, cfg) THEN BOOLEAN ELSE {TRUE}) :
         LET out == IF got = "ZipError"
                    THEN Outcome("fail", Err("Zip", Entry.name, 0, 0))
                    ELSE EntryCheck(engine, Entry, report, cfg, accept) IN
         /\ accepted' = IF got = "ZipError" \/ ~FilterConsulted(engine, Entry, cfg)
                        THEN "unasked"
                        ELSE IF accept THEN "yes" ELSE "no"
         /\ CASE out.res = "fail" ->
                   /\ Fail(out.err)
                   /\ UNCHANGED <<idx, report>>
              [] out.res = "skip" ->
                   /\ report' = [report EXCEPT !.entries_skipped = @ + 1]
                   /\ idx' = idx + 1
                   /\ UNCHANGED <<pc, err>>
              [] OTHER ->
                   /\ pc' = "exec"
                   /\ UNCHANGED <<idx, report, err>>
    /\ UNCHANGED <<engine, cfg, archive, fs, inodes, handle, written, vstate,
                   cache, envSteps, fs0, inodes0, probe, vreport, solo>>

(* fs::create_dir_all of the directory entry, or of the parent of a file *)
ExecStep ==
    /\ pc = "exec"
    /\ LET p == SafePath(Entry.name) IN
       IF WrittenAsFile(engine, Entry) THEN
          LET r == CreateDirAll(fs, ParentOf(p)) IN
          /\ fs' = r.fs
          /\ IF r.ok THEN pc' = "open" /\ UNCHANGED err
                     ELSE Fail(IoErr(Entry))
          /\ UNCHANGED <<idx, report>>
       ELSE IF Entry.kind = "Directory" THEN
          LET r == CreateDirAll(fs, p) IN
          /\ fs' = r.fs
          /\ IF r.ok
             THEN /\ report' = [report EXCEPT !.dirs_created = @ + 1]
                  /\ idx' = idx + 1
                  /\ pc' = "check"
                  /\ UNCHANGED err
             ELSE /\ Fail(IoErr(Entry))
                  /\ UNCHANGED <<idx, report>>
       ELSE /\ idx' = idx + 1
            /\ pc' = "check"
            /\ UNCHANGED <<fs, report, err>>
    /\ solo' = IF WrittenAsFile(engine, Entry)
               THEN SoloCreateDirAll(ParentOf(SafePath(Entry.name)))
               ELSE IF Entry.kind = "Directory"
               THEN SoloCreateDirAll(SafePath(Entry.name))
               ELSE solo
    /\ UNCHANGED <<engine, cfg, archive, inodes, handle, written, vstate,
                   cache, accepted, envSteps, fs0, inodes0, probe, vreport>>

(* The open of the output file *)
OpenStep ==
    /\ pc = "open"
    /\ LET p == SafePath(Entry.name)
           o == OpenForWrite(fs, inodes, p, cfg.overwrite)
       IN
       /\ fs' = o.fs
       /\ inodes' = o.inodes
       /\ CASE o.st = "ok" ->
                 /\ handle' = o.h
                 /\ pc' = "copy"
                 /\ UNCHANGED <<idx, report, err>>
            [] o.st = "skip" ->
                 /\ report' = [report EXCEPT !.entries_skipped = @ + 1]
                 /\ idx' = idx + 1
                 /\ pc' = "check"
                 /\ UNCHANGED <<handle, err>>
            [] o.st = "AlreadyExists" ->
                 /\ Fail(Err("AlreadyExists", p, 0, 0))
                 /\ UNCHANGED <<handle, idx, report>>
            [] OTHER ->
                 /\ Fail(IoErr(Entry))
                 /\ UNCHANGED <<handle, idx, report>>
    /\ solo' = SoloOpen(SafePath(Entry.name), cfg.overwrite)
    /\ UNCHANGED <<engine, cfg, archive, written, vstate, cache, accepted,
                   envSteps, fs0, inodes0, probe, vreport>>

(* The copy of the entry's content into the open file *)
CopyStep ==
    /\ pc = "copy"
    /\ LET w == CopyBytes(engine, IsValidateFirst, Entry,
                          IF idx <= Len(cache) THEN cache[idx] ELSE 0, report, cfg)
       IN
       /\ written' = w
       /\ inodes' = [inodes EXCEPT ![handle].len = w,
                                   ![handle].src = IF w = 0 THEN 0 ELSE idx]
    /\ pc' = "finish"
    /\ solo' = SoloWrite(written', idx)
    /\ UNCHANGED <<engine, cfg, archive, fs, idx, report, err, handle, vstate,
                   cache, accepted, envSteps, fs0, inodes0, probe, vreport>>

(* After the copy: verification, permissions, counters *)
FinishStep ==
    /\ pc = "finish"
    /\ LET p == SafePath(Entry.name)
           v == VerifyCopy(engine, Entry, written, report, cfg)
           m == ApplyMode(fs, inodes, p, Entry)
           counted == [report EXCEPT !.bytes_written = @ + written,
                                     !.files_extracted = @ + 1]
       IN
       IF v # NoErr
       THEN /\ Fail(v)
            /\ UNCHANGED <<inodes, report, idx>>
       ELSE /\ inodes' = m.inodes
            /\ IF m.ok
               THEN /\ report' = counted
                    /\ idx' = idx + 1
                    /\ pc' = "check"
                    /\ UNCHANGED err
               ELSE /\ Fail(IoErr(Entry))
                    /\ report' = IF engine = "Extractor" THEN counted
                                 ELSE IF engine = "DriverTar"
                                 THEN [report EXCEPT !.bytes_written = @ + written]
                                 ELSE report
                    /\ UNCHANGED idx
    /\ handle' = 0
    /\ solo' = IF VerifyCopy(engine, Entry, written, report, cfg) # NoErr
               THEN [solo EXCEPT !.handle = 0]
               ELSE SoloApplyMode(SafePath(Entry.name), Entry)
    /\ UNCHANGED <<engine, cfg, archive, fs, written, vstate, cache, accepted,
                   envSteps, fs0, inodes0, probe, vreport>>

(* Every entry processed: the report is returned *)
Complete ==
    /\ pc = "check"
    /\ idx > Len(archive)
    /\ pc' = "done"
    /\ UNCHANGED <<engine, cfg, archive, fs, inodes, idx, report, err, handle,
                   written, vstate, cache, accepted, envSteps, fs0, inodes0, probe, vreport, solo>>

(* Extractor::verify, one entry: it is opened, refused when encrypted,
   passed over when a directory or a symlink, read to its end otherwise.
   The entries explored are intact, so no read fails. *)
VerifyStep ==
    /\ pc = "verify"
    /\ idx <= Len(archive)
    /\ \E got \in ByIndex(Entry) :
         IF got = "ZipError"
         THEN /\ Fail(Err("Zip", Entry.name, 0, 0))
              /\ UNCHANGED <<idx, vreport>>
         ELSE IF Entry.enc
         THEN /\ Fail(Err("EncryptedEntry", Entry.name, 0, 0))
              /\ UNCHANGED <<idx, vreport>>
         ELSE IF Entry.kind \in {"Directory", "Symlink"}
         THEN /\ idx' = idx + 1
              /\ UNCHANGED <<pc, err, vreport>>
         ELSE /\ vreport' = [entries_verified |-> vreport.entries_verified + 1,
                             bytes_verified |-> vreport.bytes_verified + Entry.actual]
              /\ idx' = idx + 1
              /\ UNCHANGED <<pc, err>>
    /\ UNCHANGED <<engine, cfg, archive, fs, inodes, report, handle, written,
                   vstate, cache, accepted, envSteps, fs0, inodes0, probe, solo>>

(* Extractor::verify: the VerifyReport is returned *)
VerifyEnd ==
    /\ pc = "verify"
    /\ idx > Len(archive)
    /\ pc' = "done"
    /\ UNCHANGED <<engine, cfg, archive, fs, inodes, idx, report, err, handle,
                   written, vstate, cache, accepted, envSteps, fs0, inodes0, probe,
                   vreport, solo>>

Next ==
    \/ Begin
    \/ CacheEntry
    \/ CacheEnd
    \/ ValidateStep
    \/ ValidateEnd
    \/ CheckStep
    \/ ExecStep
    \/ OpenStep
    \/ CopyStep
    \/ FinishStep
    \/ Complete
    \/ VerifyStep
    \/ VerifyEnd

Spec == Init /\ [][Next]_vars

----------------------------------------------------------------------------
(* Extraction racing with another process that works in the destination *)

RacePath == <<"dest", "a">>

RaceEntries ==
    { EntryOf(<<"a">>, "File", 1, 1, 420),
      EntryOf(<<"a">>, "File", 1, 1, -1),
      EntryOf(<<"d">>, "Directory", 0, 0, -1) }

RaceConfigs ==
    [overwrite : {"Error", "Skip", "Overwrite"},
     symlinks : {"Skip"},
     mode : {"Streaming", "ValidateFirst"},
     max_total_bytes : {4},
     max_single_file : {2},
     max_file_count : {2},
     max_path_depth : {2}]

InitRace ==
    \E eng \in Engines \cup {"Verify"}, c \in RaceConfigs, ar \in Archives(RaceEntries),
       d \in {EmptyDest, WithFile} : Start(eng, c, ar, d)

Running == pc \notin {"done", "failed"}

(* The other process creates a file of its own at the path *)
EnvCreateFile ==
    /\ Running
    /\ envSteps < MaxEnvSteps
    /\ LET o == OpenCreateNew(fs, inodes, RacePath, "env") IN
       /\ o.st = "ok"
       /\ fs' = o.fs
       /\ inodes' = [o.inodes EXCEPT ![o.h].len = 1, ![o.h].src = -1]
    /\ envSteps' = envSteps + 1
    /\ UNCHANGED <<engine, cfg, archive, pc, idx, report, err, handle, written,
                   vstate, cache, accepted, fs0, inodes0, probe, vreport, solo>>

(* The other process plants a symlink to a file outside the destination *)
EnvCreateSymlink ==
    /\ Running
    /\ envSteps < MaxEnvSteps
    /\ Resolve(fs, RacePath, FALSE).st = "absent"
    /\ fs' = (RacePath :> LinkNode(<<"out", "t">>)) @@ fs
    /\ envSteps' = envSteps + 1
    /\ UNCHANGED <<engine, cfg, archive, inodes, pc, idx, report, err, handle,
                   written, vstate, cache, accepted, fs0, inodes0, probe, vreport, solo>>

(* The other process unlinks what is at the path *)
EnvRemove ==
    /\ Running
    /\ envSteps < MaxEnvSteps
    /\ Resolve(fs, RacePath, FALSE).st = "found"
    /\ fs[RacePath].kind # "dir"
    /\ fs' = RemoveFile(fs, RacePath)
    /\ envSteps' = envSteps + 1
    /\ UNCHANGED <<engine, cfg, archive, inodes, pc, idx, report, err, handle,
                   written, vstate, cache, accepted, fs0, inodes0, probe, vreport, solo>>

NextRace ==
    \/ Next
    \/ EnvCreateFile
    \/ EnvCreateSymlink
    \/ EnvRemove

SpecRace == InitRace /\ [][NextRace]_vars

----------------------------------------------------------------------------
(* Two extractions at once, into destinations that share no path: this one
   into /dest, the other one into /out.  The other extraction is seen
   through its file system calls, which it makes on paths under /out. *)

OtherRoot == <<"out">>

OtherPaths == { OtherRoot \o <<"a">>, OtherRoot \o <<"d">>, OtherRoot \o <<"d", "a">> }

PairEntries ==
    { EntryOf(<<"a">>, "File", 1, 1, 420),
      EntryOf(<<"d", "a">>, "File", 1, 1, -1),
      EntryOf(<<"d">>, "Directory", 0, 0, -1) }

InitPair ==
    \E eng \in Engines \cup {"Verify"}, c \in RaceConfigs, ar \in Archives(PairEntries),
       d \in {EmptyDest, WithFile} : Start(eng, c, ar, d)

(* The other extraction creates a directory of its archive *)
OtherCreateDir ==
    /\ Running
    /\ envSteps < MaxEnvSteps
    /\ \E q \in OtherPaths :
         LET r == CreateDirAll(fs, q) IN
         /\ r.ok
         /\ r.fs # fs
         /\ fs' = r.fs
    /\ envSteps' = envSteps + 1
    /\ UNCHANGED <<engine, cfg, archive, inodes, pc, idx, report, err, handle,
                   written, vstate, cache, accepted, fs0, inodes0, probe, vreport, solo>>

(* The other extraction opens a file of its archive per its overwrite
   policy and writes it *)
OtherWriteFile ==
    /\ Running
    /\ envSteps < MaxEnvSteps
    /\ \E q \in OtherPaths, ow \in {"Error", "Skip", "Overwrite"} :
         LET o == OpenForWrite(fs, inodes, q, ow) IN
         /\ o.st = "ok"
         /\ fs' = o.fs
         /\ inodes' = [o.inodes EXCEPT ![o.h].len = 1, ![o.h].src = -1, ![o.h].by = "env"]
    /\ envSteps' = envSteps + 1
    /\ UNCHANGED <<engine, cfg, archive, pc, idx, report, err, handle, written,
                   vstate, cache, accepted, fs0, inodes0, probe, vreport, solo>>

NextPair ==
    \/ Next
    \/ OtherCreateDir
    \/ OtherWriteFile

SpecPair == InitPair /\ [][NextPair]_vars

----------------------------------------------------------------------------
(* Checks applied on their own: the extraction is parked, and probe holds
   the input of the check and what it has answered so far *)

extractionVars ==
    <<engine, cfg, archive, fs, inodes, pc, idx, report, err, handle, written,
      vstate, cache, accepted, envSteps, fs0, inodes0, vreport, solo>>

Parked(at) ==
    /\ engine = "Extractor"
    /\ cfg = CHOOSE c \in PathConfigs : TRUE
    /\ archive = <<>>
    /\ fs = EmptyDest.fs
    /\ inodes = EmptyDest.inodes
    /\ pc = at
    /\ idx = 1
    /\ report = ZeroReport
    /\ err = NoErr
    /\ handle = 0
    /\ written = 0
    /\ vstate = ZeroState
    /\ cache = <<>>
    /\ accepted = "unasked"
    /\ envSteps = 0
    /\ fs0 = EmptyDest.fs
    /\ inodes0 = EmptyDest.inodes
    /\ vreport = ZeroVerifyReport
    /\ solo = SoloStart(EmptyDest)

----------------------------------------------------------------------------
(* PolicyChain::check_all on one entry *)

ChainEntries ==
    { EntryOf(n, k, sz, sz, -1) :
        n \in { <<"a">>, <<"..", "a\\b">>, <<"..", "a">>, <<"d", "d", "a">> },
        k \in {"File", "Symlink"},
        sz \in {1, 3} }

ChainStates == [bytes_written : {0, 2}, files_extracted : {0, 2}]

ChainConfigs == { c \in PathConfigs : c.overwrite = "Error" /\ c.mode = "Streaming" }

InitChain ==
    /\ Parked("chain")
    /\ \E e \in ChainEntries, st \in ChainStates, c \in ChainConfigs :
         probe = [entry |-> e, st |-> st, c |-> c, next |-> 1,
                  evaluated |-> <<>>, status |-> "running", result |-> NoErr]

(* One turn of the loop: the next policy checks the entry, and its error
   is returned at once *)
ChainCheck ==
    /\ pc = "chain"
    /\ probe.status = "running"
    /\ probe.next <= Len(BuildPolicies)
    /\ LET name == BuildPolicies[probe.next]
           r == PolicyCheck(name, probe.entry, probe.st, probe.c)
       IN probe' = [probe EXCEPT !.evaluated = Append(@, name),
                                 !.next = @ + 1,
                                 !.status = IF r = NoErr THEN "running" ELSE "failed",
                                 !.result = r]
    /\ UNCHANGED extractionVars

(* The loop is over: Ok(()) *)
ChainOk ==
    /\ pc = "chain"
    /\ probe.status = "running"
    /\ probe.next > Len(BuildPolicies)
    /\ probe' = [probe EXCEPT !.status = "ok"]
    /\ UNCHANGED extractionVars

NextChain ==
    \/ ChainCheck
    \/ ChainOk

SpecChain == InitChain /\ [][NextChain]_vars

----------------------------------------------------------------------------
(* The declared-size checks on values up to u64::MAX; bytes_written is
   within max_total_bytes, as the copy limit keeps it *)

SizeValues == {0, 1, U64Max - 1, U64Max}

InitSizes ==
    /\ Parked("sizes")
    /\ \E sz \in SizeValues, single \in SizeValues, total \in SizeValues :
       \E bw \in {v \in SizeValues : v <= total}, actual \in {0, sz} :
         probe = [entry |-> EntryOf(<<"a">>, "File", sz, actual, -1),
                  st |-> [bytes_written |-> bw, files_extracted |-> 0],
                  c |-> [max_single_file |-> single, max_total_bytes |-> total],
                  ext |-> Unasked, pol |-> Unasked,
                  written |-> -1, after |-> Unasked]

(* Extractor::extract makes its declared-size checks *)
ExtractorSizeCheck ==
    /\ pc = "sizes"
    /\ probe.ext = Unasked
    /\ \E r \in ExtractorSizeOutcomes(probe.entry, probe.st, probe.c) :
         probe' = [probe EXCEPT !.ext = r]
    /\ UNCHANGED extractionVars

(* SizePolicy::check is called *)
SizePolicyApply ==
    /\ pc = "sizes"
    /\ probe.pol = Unasked
    /\ \E r \in SizePolicyOutcomes(probe.entry, probe.st, probe.c) :
         probe' = [probe EXCEPT !.pol = r]
    /\ UNCHANGED extractionVars

(* Extractor::extract copies the entry that passed its checks *)
ExtractorCopy ==
    /\ pc = "sizes"
    /\ probe.ext = NoErr
    /\ probe.written = -1
    /\ probe' = [probe EXCEPT !.written =
                   LimitedCopy(probe.entry.actual,
                               ExtractorHardLimit(probe.entry, probe.st, probe.c))]
    /\ UNCHANGED extractionVars

(* Extractor::extract looks at the limiter after the copy *)
ExtractorAfterCopy ==
    /\ pc = "sizes"
    /\ probe.written >= 0
    /\ probe.after = Unasked
    /\ probe' = [probe EXCEPT !.after =
                   ExtractorVerify(probe.entry, probe.written, probe.st, probe.c)]
    /\ UNCHANGED extractionVars

NextSizes ==
    \/ ExtractorSizeCheck
    \/ SizePolicyApply
    \/ ExtractorCopy
    \/ ExtractorAfterCopy

SpecSizes == InitSizes /\ [][NextSizes]_vars

----------------------------------------------------------------------------
(* LimitReader over a source of bytes *)

MaxBytes == 3

(* A source holds `left` more bytes, or never ends *)
Sources ==
    { [endless |-> TRUE, left |-> 0] }
    \cup { [endless |-> FALSE, left |-> n] : n \in 0..MaxBytes + 1 }

(* inner.read(&mut buf[0..len]): some bytes, none at the end or for an empty
   buffer, or an error *)
SourceRead(src, len) ==
    LET most == IF src.endless THEN len ELSE Min(len, src.left) IN
    { [err |-> TRUE, n |-> 0, inner |-> src] }
    \cup { [err |-> FALSE, n |-> k,
            inner |-> IF src.endless THEN src ELSE [src EXCEPT !.left = @ - k]] :
           k \in (IF most = 0 THEN {0} ELSE 1..most) }

(* LimitReader::new *)
LimitReaderNew(src, limit) ==
    [inner |-> src, limit |-> limit, bytes_read |-> 0, hit_limit |-> FALSE]

(* A read that hands the whole buffer to the source *)
LimitReaderReadUncapped(r, len) ==
    IF r.bytes_read >= r.limit
    THEN { [reader |-> [r EXCEPT !.hit_limit = TRUE], err |-> FALSE, n |-> 0, asked |-> -1] }
    ELSE { IF o.err
           THEN [reader |-> r, err |-> TRUE, n |-> 0, asked |-> len]
           ELSE [reader |-> [r EXCEPT !.inner = o.inner,
                                      !.bytes_read = @ + o.n,
                                      !.hit_limit = (r.bytes_read + o.n >= r.limit) \/ @],
                 err |-> FALSE, n |-> o.n, asked |-> len] :
           o \in SourceRead(r.inner, len) }

(* <LimitReader as Read>::read with a buffer of len bytes; asked is the
   length passed on to the source, -1 when the source is not read *)
LimitReaderRead(r, len) ==
    IF r.bytes_read >= r.limit
    THEN { [reader |-> [r EXCEPT !.hit_limit = TRUE], err |-> FALSE, n |-> 0, asked |-> -1] }
    ELSE LET remaining == r.limit - r.bytes_read
             cap == Min(len, remaining)
         IN { IF o.err
              THEN [reader |-> r, err |-> TRUE, n |-> 0, asked |-> cap]
              ELSE [reader |-> [r EXCEPT !.inner = o.inner,
                                         !.bytes_read = @ + o.n,
                                         !.hit_limit = (r.bytes_read + o.n >= r.limit) \/ @],
                    err |-> FALSE, n |-> o.n, asked |-> cap] :
              o \in SourceRead(r.inner, cap) }

InitReader ==
    /\ Parked("reader")
    /\ \E src \in Sources, limit \in 0..MaxBytes :
         probe = [reader |-> LimitReaderNew(src, limit),
                  last |-> [any |-> FALSE, len |-> 0, err |-> FALSE, n |-> 0,
                            asked |-> -1, before |-> LimitReaderNew(src, limit)]]

(* One call of read, with any buffer *)
ReaderRead ==
    /\ pc = "reader"
    /\ \E len \in 0..MaxBytes + 1 :
       \E o \in LimitReaderRead(probe.reader, len) :
         probe' = [reader |-> o.reader,
                   last |-> [any |-> TRUE, len |-> len, err |-> o.err, n |-> o.n,
                             asked |-> o.asked, before |-> probe.reader]]
    /\ UNCHANGED extractionVars

NextReader == ReaderRead

SpecReader == InitReader /\ [][NextReader]_vars

----------------------------------------------------------------------------
(* The filename validators applied to names *)

NameChars == {"C", "c", "O", "N", ".", "/", "\\", "\n", "x"}

NameRuns ==
    { Run(ch, 1) : ch \in NameChars } \cup { Run("x", 255), Run("/", 1024) }

Names == UNION { [1..n -> NameRuns] : n \in 0..MaxNameLen }

InitNames ==
    /\ \E s \in Names : probe = [name |-> s, ext |-> Unasked, pol |-> Unasked]
    /\ engine = "Extractor"
    /\ cfg = CHOOSE c \in PathConfigs : TRUE
    /\ archive = <<>>
    /\ fs = EmptyDest.fs
    /\ inodes = EmptyDest.inodes
    /\ pc = "names"
    /\ idx = 1
    /\ report = ZeroReport
    /\ err = NoErr
    /\ handle = 0
    /\ written = 0
    /\ vstate = ZeroState
    /\ cache = <<>>
    /\ accepted = "unasked"
    /\ envSteps = 0
    /\ fs0 = EmptyDest.fs
    /\ inodes0 = EmptyDest.inodes
    /\ vreport = ZeroVerifyReport
    /\ solo = SoloStart(EmptyDest)

(* Extractor::extract validates the entry's name *)
ExtractorValidate ==
    /\ pc = "names"
    /\ probe.ext = Unasked
    /\ probe' = [probe EXCEPT !.ext = ExtractorNameCheck(probe.name)]
    /\ UNCHANGED <<engine, cfg, archive, fs, inodes, pc, idx, report, err, handle,
                   written, vstate, cache, accepted, envSteps, fs0, inodes0, vreport, solo>>

(* PathPolicy::check validates the entry's name *)
PathPolicyValidate ==
    /\ pc = "names"
    /\ probe.pol = Unasked
    /\ probe' = [probe EXCEPT !.pol = PathPolicyNameCheck(probe.name)]
    /\ UNCHANGED <<engine, cfg, archive, fs, inodes, pc, idx, report, err, handle,
                   written, vstate, cache, accepted, envSteps, fs0, inodes0, vreport, solo>>

NextNames ==
    \/ ExtractorValidate
    \/ PathPolicyValidate

SpecNames == InitNames /\ [][NextNames]_vars

----------------------------------------------------------------------------
(* Properties *)

(* The object at path p is what it was before the extraction *)
Untouched(p) ==
    /\ p \in DOMAIN fs0
    /\ fs[p] = fs0[p]
    /\ fs[p].kind = "file" => inodes[fs[p].ino] = inodes0[fs[p].ino]

PolicyErrors ==
    {"InvalidFilename", "PathEscape", "FileTooLarge", "TotalSizeExceeded",
     "FileCountExceeded", "PathTooDeep", "SymlinkNotAllowed"}

(* C1: after a successful extraction every object outside the destination
   root is one that was there before, with the same content: nothing was
   created or written outside the root. *)
C1_NothingOutsideRoot ==
    pc = "done" => \A p \in DOMAIN fs : ~IsPrefix(Root, p) => Untouched(p)

(* C2: when a ValidateFirst extraction by Extractor or by the TAR driver
   fails with a policy error, no file entry of the archive exists on disk
   unless it was there before, unchanged: nothing was written. *)
C2_ValidateFirstWritesNothing ==
    (/\ cfg.mode = "ValidateFirst"
     /\ engine \in {"Extractor", "DriverTar"}
     /\ pc = "failed"
     /\ err.kind \in PolicyErrors)
    => \A i \in 1..Len(archive) :
         archive[i].kind = "File" =>
            LET w == Resolve(fs, SafePath(archive[i].name), TRUE) IN
            w.st = "found" => Untouched(w.path)

(* C3: in every state of every extraction the bytes counted as written do
   not exceed max_total_bytes and the files counted as extracted do not
   exceed max_file_count. *)
C3_CountersWithinLimits ==
    /\ report.bytes_written <= cfg.max_total_bytes
    /\ report.files_extracted <= cfg.max_file_count

(* C4: a file entry whose content is longer than its declared size never
   has more than the declared size in its output file, and the step after
   its copy fails with SizeMismatch, FileTooLarge or TotalSizeExceeded
   without counting the entry. *)
C4_LyingEntryRejected ==
    [][(pc = "finish" /\ Entry.actual > Entry.size)
         => /\ inodes[handle].len <= Entry.size
            /\ pc' = "failed"
            /\ err'.kind \in {"SizeMismatch", "FileTooLarge", "TotalSizeExceeded"}
            /\ report' = report]_vars

(* C5: under Overwrite, while the output file of a file entry whose path
   was a symlink before the extraction is open, the path is a regular file
   that the extraction created (not the symlink, not its target); after the
   copy it holds the bytes copied from the entry; and the file the symlink
   pointed to is what it was before the extraction. *)
C5_SymlinkReplacedNotFollowed ==
    \A q \in DOMAIN fs0 :
      (/\ cfg.overwrite = "Overwrite"
       /\ pc \in {"copy", "finish"}
       /\ fs0[q].kind = "symlink"
       /\ SafePath(Entry.name) = q)
      => /\ q \in DOMAIN fs
         /\ fs[q].kind = "file"
         /\ fs[q].ino = handle
         /\ handle > Len(inodes0)
         /\ pc = "finish" =>
              /\ inodes[handle].len = written
              /\ written > 0 => inodes[handle].src = idx
         /\ LET t == Resolve(fs0, q, TRUE) IN
            t.st = "found" => Untouched(t.path)

C5_Witness ==
    /\ cfg.overwrite = "Overwrite"
    /\ pc = "finish"
    /\ SafePath(Entry.name) \in DOMAIN fs0
    /\ fs0[SafePath(Entry.name)].kind = "symlink"
    /\ Resolve(fs0, SafePath(Entry.name), TRUE).st = "found"
    /\ fs[SafePath(Entry.name)].kind = "file"
    /\ written > 0

(* C6: no symlink exists on disk that was not there, identical, before the
   extraction; a symlink entry is never materialized (it never reaches the
   steps that create a directory or a file); and the step that handles a
   symlink entry changes nothing on disk. *)
C6_NoLinkCreated ==
    /\ [](\A p \in DOMAIN fs :
            fs[p].kind = "symlink" => (p \in DOMAIN fs0 /\ fs0[p] = fs[p]))
    /\ [](pc \in {"exec", "open", "copy", "finish"} => Entry.kind # "Symlink")
    /\ [][(pc = "check" /\ idx <= Len(archive) /\ Entry.kind = "Symlink")
            => (fs' = fs /\ inodes' = inodes)]_vars

C6_Witness ==
    /\ pc = "done"
    /\ \E i \in 1..Len(archive) :
         /\ archive[i].kind = "Symlink"
         /\ Resolve(fs, SafePath(archive[i].name), FALSE).st = "absent"
    /\ report.entries_skipped > 0

(* C7: a file entry committed with a mode has permission bits equal to
   mode & 0o777 on its output file, and the output file of every committed
   file entry is free of the setuid, setgid and sticky bits. *)
C7_PermissionsMasked ==
    [][(pc = "finish" /\ pc' = "check")
         => /\ Entry.mode >= 0 => inodes'[handle].mode = Entry.mode % 512
            /\ inodes'[handle].mode < 512]_vars

(* C8: an entry with a valid name that leaves the root when joined to it
   and normalized aborts the extraction with PathEscape carrying that name,
   in the validation pass and in the extraction pass, and nothing is
   created on disk by that step. *)
C8_EscapeAborts ==
    [][(/\ pc \in {"validate", "check"}
        /\ idx <= Len(archive)
        /\ ValidateFilename(Entry.name) = "ok"
        /\ ~IsPrefix(Root, Normalize(Root, Components(Entry.name))))
         => /\ pc' = "failed"
            /\ err' = Err("PathEscape", Entry.name, 0, 0)
            /\ fs' = fs
            /\ inodes' = inodes]_vars

(* C9: under overwrite=Error or Skip, with another process creating,
   linking and unlinking at the same path at any moment, the file the
   extraction has open is one it created itself, and no step of the
   extraction changes the bytes of a file it did not create (directly or
   through a symlink). *)
C9_WritesOnlyOwnFiles ==
    /\ []((cfg.overwrite \in {"Error", "Skip"} /\ handle # 0)
            => inodes[handle].by = "ext")
    /\ [][(cfg.overwrite \in {"Error", "Skip"} /\ envSteps' = envSteps)
            => \A n \in 1..Len(inodes) :
                 inodes[n].by # "ext"
                   => (inodes'[n].len = inodes[n].len /\ inodes'[n].src = inodes[n].src)]_vars

C9_Witness ==
    /\ cfg.overwrite = "Error"
    /\ pc = "failed"
    /\ err.kind = "AlreadyExists"
    /\ envSteps > 0
    /\ RacePath \notin DOMAIN fs0
    /\ RacePath \in DOMAIN fs
    /\ fs[RacePath].kind = "symlink"
    /\ report.files_extracted = 0
    /\ inodes = inodes0

(* C10: under overwrite=Error, the open of a file entry whose destination
   path exists (from before, or from an earlier entry) aborts the
   extraction with AlreadyExists and changes nothing on disk. *)
C10_ExistingPathIsFatal ==
    [][(/\ pc = "open"
        /\ cfg.overwrite = "Error"
        /\ Resolve(fs, SafePath(Entry.name), FALSE).st = "found")
         => /\ pc' = "failed"
            /\ err'.kind = "AlreadyExists"
            /\ err'.entry = SafePath(Entry.name)
            /\ fs' = fs
            /\ inodes' = inodes]_vars

C10_Witness ==
    /\ pc = "failed"
    /\ err.kind = "AlreadyExists"
    /\ cfg.overwrite = "Error"
    /\ idx = 2
    /\ archive[1].name = archive[2].name
    /\ report.files_extracted = 1
    /\ \E n \in 1..Len(inodes) : inodes[n].by = "ext" /\ inodes[n].src = 1

(* C11: under overwrite=Skip, the open of a file entry whose destination
   path exists changes nothing on disk, adds exactly one to entries_skipped,
   leaves the other counters as they are, and the extraction goes on with
   the next entry. *)
C11_ExistingPathIsSkipped ==
    [][(/\ pc = "open"
        /\ cfg.overwrite = "Skip"
        /\ Resolve(fs, SafePath(Entry.name), FALSE).st = "found")
         => /\ fs' = fs
            /\ inodes' = inodes
            /\ report' = [report EXCEPT !.entries_skipped = @ + 1]
            /\ err' = NoErr
            /\ pc' = "check"
            /\ idx' = idx + 1]_vars

C11_Witness ==
    /\ cfg.overwrite = "Skip"
    /\ pc = "done"
    /\ Len(archive) = 2
    /\ archive[1].name = <<"a">>
    /\ archive[2].name = <<"b">>
    /\ <<"dest", "a">> \in DOMAIN fs0
    /\ Untouched(<<"dest", "a">>)
    /\ report.entries_skipped = 1
    /\ report.files_extracted = 1

(* C12: an entry whose name is invalid, leaves the root, or (for an entry
   that is not a symlink) is too deep aborts the extraction at its checks
   without the filter being consulted, whatever the filter would answer. *)
C12_FilterAfterPolicies ==
    [][(/\ pc = "check"
        /\ idx <= Len(archive)
        /\ \/ ValidateFilename(Entry.name) # "ok"
           \/ ~JailJoin(Entry.name).ok
           \/ (Entry.kind # "Symlink" /\ NormalCount(Entry.name) > cfg.max_path_depth))
         => /\ pc' = "failed"
            /\ accepted' = "unasked"]_vars

(* C13: in Streaming mode the step of an entry for which the filter
   answers false writes nothing, adds exactly one to entries_skipped, leaves
   files_extracted and bytes_written as they are and raises no error (so
   none of FileCountExceeded, FileTooLarge, TotalSizeExceeded); the
   extraction goes on with the next entry. *)
C13_FilteredEntryCostsNothing ==
    [][(/\ pc = "check"
        /\ idx <= Len(archive)
        /\ cfg.mode = "Streaming"
        /\ accepted' = "no")
         => /\ fs' = fs
            /\ inodes' = inodes
            /\ report' = [report EXCEPT !.entries_skipped = @ + 1]
            /\ err' = NoErr
            /\ pc' = "check"
            /\ idx' = idx + 1]_vars

C13_Witness ==
    /\ cfg.mode = "Streaming"
    /\ pc = "done"
    /\ Len(archive) = 1
    /\ archive[1].kind = "File"
    /\ archive[1].size > cfg.max_single_file
    /\ accepted = "no"
    /\ report = [ZeroReport EXCEPT !.entries_skipped = 1]
    /\ fs = fs0

(* C14: the step of a symlink entry whose name is valid and inside the root
   has one of two outcomes, chosen by the symlink policy alone: under
   symlinks=Error the extraction aborts with SymlinkNotAllowed naming the
   entry; under symlinks=Skip entries_skipped grows by one and the extraction
   goes on with the next entry.  No depth, count or size error is raised. *)
C14_SymlinkPolicyAloneDecides ==
    [][(/\ pc = "check"
        /\ idx <= Len(archive)
        /\ Entry.kind = "Symlink"
        /\ ValidateFilename(Entry.name) = "ok"
        /\ JailJoin(Entry.name).ok)
         => IF cfg.symlinks = "Error"
            THEN /\ pc' = "failed"
                 /\ err' = Err("SymlinkNotAllowed", Entry.name, 0, 0)
            ELSE /\ pc' = "check"
                 /\ idx' = idx + 1
                 /\ err' = NoErr
                 /\ report' = [report EXCEPT !.entries_skipped = @ + 1]]_vars

(* C15: a name is rejected by filename validation exactly when it is empty,
   holds a control character, holds a backslash, is longer than 1024 bytes,
   has a '/'-separated component longer than 255 bytes, or has a component
   whose part before the first '.' is, case ignored, a reserved device name;
   a rejection is InvalidFilename for that name with a reason whose rule the
   name breaks; and the Extractor's and the PathPolicy's validators give the
   same answer on every name. *)
RuleEmpty(s) == StrLen(s) = 0

RuleControl(s) == LET e == Expand(s) IN \E i \in 1..Len(e) : e[i] = "\n"

RuleBackslash(s) == LET e == Expand(s) IN \E i \in 1..Len(e) : e[i] = "\\"

RuleTooLong(s) == Len(Expand(s)) > 1024

RuleComponentTooLong(s) ==
    LET ps == Split(s, "/") IN \E i \in 1..Len(ps) : Len(Expand(ps[i])) > 255

RuleReserved(s) ==
    LET ps == Split(s, "/") IN
    \E i \in 1..Len(ps) :
        LET stem == Expand(Head(Split(ps[i], "."))) IN
        \E r \in ReservedNames :
            /\ Len(stem) = Len(r)
            /\ \A k \in 1..Len(r) : UpperChar(stem[k]) = r[k]

BreaksARule(s) ==
    \/ RuleEmpty(s)
    \/ RuleControl(s)
    \/ RuleBackslash(s)
    \/ RuleTooLong(s)
    \/ RuleComponentTooLong(s)
    \/ RuleReserved(s)

ReasonHolds(reason, s) ==
    CASE reason = "empty filename" -> RuleEmpty(s)
      [] reason = "contains control characters" -> RuleControl(s)
      [] reason = "contains backslash" -> RuleBackslash(s)
      [] reason = "path too long (>1024 bytes)" -> RuleTooLong(s)
      [] reason = "path component too long (>255 bytes)" -> RuleComponentTooLong(s)
      [] reason = "Windows reserved name" -> RuleReserved(s)
      [] OTHER -> FALSE

AnswerFollowsRules(ans, s) ==
    IF BreaksARule(s)
    THEN /\ ans.kind = "InvalidFilename"
         /\ ans.entry = s
         /\ ReasonHolds(ans.reason, s)
    ELSE ans = NameAccepted

C15_ValidationFollowsRules ==
    /\ probe.ext # Unasked => AnswerFollowsRules(probe.ext, probe.name)
    /\ probe.pol # Unasked => AnswerFollowsRules(probe.pol, probe.name)
    /\ (probe.ext # Unasked /\ probe.pol # Unasked) => probe.ext = probe.pol

C15_Witness ==
    /\ Expand(probe.name) = <<"c", "O", "N", ".">>
    /\ probe.ext = InvalidFilename(probe.name, "Windows reserved name")
    /\ probe.pol = probe.ext

(* C16: in the TAR engine the step that reaches an entry whose type is none
   of regular file, continuous file, directory, symlink and hard link aborts
   the extraction with UnsupportedEntryType naming the entry, and creates
   nothing on disk; in ValidateFirst mode the disk is as it was before the
   extraction when that error is raised. *)
C16_UnsupportedTypeAborts ==
    /\ [][(/\ engine = "DriverTar"
           /\ pc \in {"cache", "check"}
           /\ idx <= Len(archive)
           /\ archive[idx].kind \notin
                  {"File", "Regular", "Continuous", "Directory", "Symlink", "Link"})
            => /\ pc' = "failed"
               /\ err' = Err("UnsupportedEntryType", archive[idx].name, 0, 0)
               /\ fs' = fs
               /\ inodes' = inodes
               /\ report' = report]_vars
    /\ []((err.kind = "UnsupportedEntryType" /\ cfg.mode = "ValidateFirst")
            => (fs = fs0 /\ inodes = inodes0 /\ report = ZeroReport))

C16_Witness ==
    /\ engine = "DriverTar"
    /\ cfg.mode = "ValidateFirst"
    /\ Len(archive) = 2
    /\ archive[1].kind = "Regular"
    /\ archive[2].kind = "Fifo"
    /\ pc = "failed"
    /\ err = Err("UnsupportedEntryType", <<"t">>, 0, 0)
    /\ fs = fs0

(* C17: the step of Extractor::extract or Extractor::verify that reaches a
   ZIP entry with the encryption flag set rejects the archive with
   EncryptedEntry naming that entry, and writes nothing. *)
C17_EncryptedEntryRejected ==
    [][(/\ engine \in {"Extractor", "Verify"}
        /\ pc \in {"check", "verify"}
        /\ idx <= Len(archive)
        /\ archive[idx].enc)
         => /\ pc' = "failed"
            /\ err' = Err("EncryptedEntry", archive[idx].name, 0, 0)
            /\ fs' = fs
            /\ inodes' = inodes]_vars

(* C18: an error ends the extraction at the entry that failed.  Entries are
   taken in archive order, one after the other, each pass starting at the
   first; once an error is raised nothing changes any more, so no later
   entry is validated, written or counted and nothing is retried.  The step
   that fails counts nothing and removes nothing: what was on disk before
   it, the files committed earlier and the partly written file of the
   failing entry included, is still there with the same content. *)
C18_ErrorsAbortInPlace ==
    /\ [](err # NoErr => pc = "failed")
    /\ [][pc = "failed" => UNCHANGED vars]_vars
    /\ [][\/ idx' = idx
          \/ idx' = idx + 1
          \/ (pc \in {"cache", "validate"} /\ pc' # pc /\ idx' = 1)]_vars
    /\ [][(pc # "failed" /\ pc' = "failed")
            => /\ idx' = idx
               /\ report' = report
               /\ vreport' = vreport
               /\ vstate' = vstate
               /\ inodes' = inodes
               /\ \A q \in DOMAIN fs : q \in DOMAIN fs' /\ fs'[q] = fs[q]]_vars
    /\ [](pc = "failed"
            => /\ \A i \in 1..Len(inodes) :
                    inodes[i].by = "ext" => inodes[i].src <= idx
               /\ report.files_extracted + report.dirs_created
                    + report.entries_skipped <= idx - 1)

C18_Witness ==
    /\ cfg.mode = "Streaming"
    /\ pc = "failed"
    /\ idx = 2
    /\ report.files_extracted = 1
    /\ \E i \in 1..Len(inodes) :
         inodes[i].by = "ext" /\ inodes[i].src = 1 /\ inodes[i].len = 1
    /\ \E q \in DOMAIN fs :
         /\ q \notin DOMAIN fs0
         /\ fs[q].kind = "file"
         /\ inodes[fs[q].ino].by = "ext"
         /\ inodes[fs[q].ino].src = 2

(* C19: in a ValidateFirst extraction of a TAR archive the content bytes
   held in the cache never add up to more than max_total_bytes. *)
C19_CacheWithinTotal ==
    (engine = "DriverTar" /\ cfg.mode = "ValidateFirst")
        => SeqSum(cache) <= cfg.max_total_bytes

(* C20: an extraction into /dest that runs while another extraction works
   in /out, a destination sharing no path with /dest, is not disturbed by
   it under any interleaving: every file system call gives it the answer it
   gets when running alone (so it takes the same steps and returns the same
   report), the tree under /dest is at every moment the tree of the run
   alone, and no step of the other extraction touches its counters. *)
TreeUnder(f, ino, root) ==
    [q \in {x \in DOMAIN f : IsPrefix(root, x)} |->
        IF f[q].kind = "file" THEN <<"file", ino[f[q].ino]>>
        ELSE <<f[q].kind, f[q].target>>]

C20_DisjointExtractionsIndependent ==
    /\ [](/\ solo.same
          /\ TreeUnder(fs, inodes, Root) = TreeUnder(solo.fs, solo.inodes, Root))
    /\ [][envSteps' # envSteps
            => /\ report' = report
               /\ vreport' = vreport
               /\ vstate' = vstate
               /\ <<pc, idx, err, written>>' = <<pc, idx, err, written>>]_vars

C20_Witness ==
    /\ pc = "done"
    /\ envSteps >= 2
    /\ report.files_extracted = 2
    /\ <<"dest", "d", "a">> \in DOMAIN fs
    /\ <<"out", "d", "a">> \in DOMAIN fs
    /\ <<"out", "d", "a">> \notin DOMAIN solo.fs
    /\ Len(inodes) > Len(solo.inodes)

(* C21: the chain evaluates PathPolicy (filename validation before the
   jail), SizePolicy, CountPolicy, DepthPolicy and SymlinkPolicy in that
   order and stops at the first failure: the error returned is the one of
   the earliest policy, in that order, that the entry violates, no policy
   after it is evaluated, and a name with a backslash and '..' gives
   InvalidFilename, never PathEscape. *)
ClaimedOrder == <<"Path", "Size", "Count", "Depth", "Symlink">>

Violates(name, p) == PolicyCheck(name, p.entry, p.st, p.c) # NoErr

C21_ChainOrder ==
    pc = "chain" =>
      /\ IsPrefix(probe.evaluated, ClaimedOrder)
      /\ probe.status = "ok" =>
           /\ probe.result = NoErr
           /\ probe.evaluated = ClaimedOrder
           /\ \A i \in 1..5 : ~Violates(ClaimedOrder[i], probe)
      /\ probe.status = "failed" =>
           LET k == Len(probe.evaluated) IN
           /\ k >= 1
           /\ Violates(ClaimedOrder[k], probe)
           /\ \A i \in 1..(k - 1) : ~Violates(ClaimedOrder[i], probe)
           /\ probe.result = PolicyCheck(ClaimedOrder[k], probe.entry, probe.st, probe.c)
           /\ (\E i \in 1..Len(probe.entry.name) : HasBackslash(probe.entry.name[i]))
                => probe.result.kind = "InvalidFilename"
      /\ probe.status = "running" =>
           \A i \in 1..Len(probe.evaluated) : ~Violates(ClaimedOrder[i], probe)

C21_Witness ==
    /\ pc = "chain"
    /\ probe.entry.name = <<"..", "a\\b">>
    /\ probe.entry.kind = "Symlink"
    /\ probe.entry.size = 3
    /\ probe.st.files_extracted = 2
    /\ probe.c.symlinks = "Error"
    /\ probe.status = "failed"
    /\ probe.result = Err("InvalidFilename", probe.entry.name, 0, 0)
    /\ probe.evaluated = <<"Path">>

(* C22: an entry is rejected with PathTooDeep only when the number of its
   components other than '.' and '..' exceeds max_path_depth, and the depth
   reported is that number, in every engine alike. *)
C22_DepthCountsNormalComponents ==
    [][(/\ pc \in {"check", "validate"}
        /\ idx <= Len(archive)
        /\ pc' = "failed"
        /\ err'.kind = "PathTooDeep")
         => /\ NormalCount(Entry.name) > cfg.max_path_depth
            /\ err' = Err("PathTooDeep", Entry.name, NormalCount(Entry.name),
                          cfg.max_path_depth)]_vars

(* C23: the size check answers FileTooLarge exactly when the declared size
   exceeds max_single_file, otherwise TotalSizeExceeded with limit
   max_total_bytes and would_be bytes_written + size exactly when that sum,
   taken as a mathematical integer, exceeds max_total_bytes, and accepts
   otherwise, for all u64 values. *)
SizeRule(p) ==
    IF p.entry.size > p.c.max_single_file
    THEN Err("FileTooLarge", p.entry.name, p.c.max_single_file, p.entry.size)
    ELSE IF p.st.bytes_written + p.entry.size > p.c.max_total_bytes
    THEN Err("TotalSizeExceeded", <<>>, p.c.max_total_bytes,
             p.st.bytes_written + p.entry.size)
    ELSE NoErr

C23_SizeCheckExact ==
    pc = "sizes" =>
      /\ probe.ext # Unasked => probe.ext = SizeRule(probe)
      /\ probe.pol # Unasked => probe.pol = SizeRule(probe)

(* C24: the count check rejects an entry exactly when files_extracted has
   reached max_file_count when the entry is attempted, with limit
   max_file_count and attempted files_extracted + 1.  So files_extracted
   never exceeds the limit, an archive of at most max_file_count file
   entries never fails the count check, and one of max_file_count + 1 file
   entries that fails it does so at its last entry, as attempt
   max_file_count + 1. *)
AllFiles == \A i \in 1..Len(archive) : archive[i].kind \in {"File", "Regular", "Continuous"}

CountedSoFar == IF pc = "validate" THEN vstate.files_extracted ELSE report.files_extracted

CountCheckReached ==
    /\ pc \in {"check", "validate"}
    /\ idx <= Len(archive)
    /\ IF engine = "Extractor"
       THEN pc = "check" /\ accepted' = "yes"
       ELSE /\ engine \in {"DriverZip", "DriverTar"}
            /\ pc = "check" => accepted' = "yes"
            /\ Entry.kind # "Unsupported"
            /\ PathPolicyCheck(Entry) = NoErr
            /\ SizePolicyCheck(Entry, IF pc = "validate" THEN vstate ELSE report, cfg) = NoErr

C24_CountCheckExact ==
    /\ [][(/\ pc \in {"check", "validate"}
           /\ idx <= Len(archive)
           /\ pc' = "failed"
           /\ err'.kind = "FileCountExceeded")
            => /\ CountedSoFar >= cfg.max_file_count
               /\ err' = Err("FileCountExceeded", <<>>, cfg.max_file_count,
                             CountedSoFar + 1)]_vars
    /\ [][(CountCheckReached /\ CountedSoFar >= cfg.max_file_count)
            => (pc' = "failed" /\ err'.kind = "FileCountExceeded")]_vars
    /\ [](report.files_extracted <= cfg.max_file_count)
    /\ []((AllFiles /\ Len(archive) <= cfg.max_file_count)
            => err.kind # "FileCountExceeded")
    /\ []((AllFiles /\ Len(archive) = cfg.max_file_count + 1
           /\ err.kind = "FileCountExceeded")
            => /\ idx >= Len(archive)
               /\ err = Err("FileCountExceeded", <<>>, cfg.max_file_count,
                            cfg.max_file_count + 1))

C24_Witness ==
    /\ cfg.max_file_count = 1
    /\ cfg.mode = "Streaming"
    /\ Len(archive) = 2
    /\ AllFiles
    /\ pc = "failed"
    /\ idx = 2
    /\ report.files_extracted = 1
    /\ err = Err("FileCountExceeded", <<>>, 1, 2)

(* C25: a LimitReader with limit L never has bytes_read over L; a read
   returns, and asks of the source, at most min(buffer length, L - bytes_read)
   bytes; a read made once bytes_read >= L returns 0 without reading the
   source and leaves hit_limit set; hit_limit is never set while
   bytes_read < L. *)
C25_LimitReaderBounded ==
    pc = "reader" =>
      LET r == probe.reader
          l == probe.last
          b == probe.last.before
      IN /\ r.bytes_read <= r.limit
         /\ r.hit_limit => r.bytes_read >= r.limit
         /\ l.any =>
              /\ l.n <= Min(l.len, b.limit - b.bytes_read)
              /\ l.asked <= Min(l.len, b.limit - b.bytes_read)
              /\ r.bytes_read = b.bytes_read + l.n
              /\ b.bytes_read >= b.limit
                   => (l.n = 0 /\ l.asked = -1 /\ ~l.err /\ r.hit_limit)

C25_Witness ==
    /\ pc = "reader"
    /\ probe.reader.limit = 2
    /\ probe.reader.inner.endless
    /\ probe.last.any
    /\ probe.last.before.bytes_read = 2
    /\ probe.last.len = 3
    /\ probe.last.n = 0
    /\ probe.reader.hit_limit

(* C26: copying the content of one entry stops after at most
   min(max_single_file, max_total_bytes - bytes_written) bytes, in Extractor
   also after at most the declared size, whatever the source holds; hence
   every copy ends and every extraction returns. *)
C26_CopyStopsAtLimit ==
    [][(pc = "copy" /\ pc' = "finish")
        => /\ written' <= Min(cfg.max_single_file,
                              SatSub(cfg.max_total_bytes, report.bytes_written))
           /\ engine = "Extractor" => written' <= Entry.size]_vars

(* C27: in an extraction every entry that is passed changes exactly one of
   files_extracted, dirs_created and entries_skipped, by one: dirs_created
   for a directory entry, files_extracted for a committed file,
   entries_skipped for a symlink, a filter-rejected entry or an existing
   path under overwrite=Skip.  A successful extraction therefore ends with
   files_extracted + dirs_created + entries_skipped equal to the number of
   entries, and an empty archive with the report {0,0,0,0}. *)
CounterSum(r) == r.files_extracted + r.dirs_created + r.entries_skipped

EntryPassed ==
    /\ engine # "Verify"
    /\ pc \in {"check", "exec", "open", "finish"}
    /\ idx' = idx + 1

C27_OneCounterPerEntry ==
    /\ [][EntryPassed =>
           /\ CounterSum(report') = CounterSum(report) + 1
           /\ report'.files_extracted \in {report.files_extracted, report.files_extracted + 1}
           /\ report'.dirs_created \in {report.dirs_created, report.dirs_created + 1}
           /\ report'.entries_skipped \in {report.entries_skipped, report.entries_skipped + 1}
           /\ report'.dirs_created # report.dirs_created
                => (Entry.kind = "Directory" /\ pc = "exec")
           /\ report'.files_extracted # report.files_extracted
                => (WrittenAsFile(engine, Entry) /\ pc = "finish")
           /\ report'.entries_skipped # report.entries_skipped
                => \/ Entry.kind = "Symlink"
                   \/ accepted' = "no"
                   \/ pc = "open" /\ cfg.overwrite = "Skip"]_vars
    /\ [][(engine # "Verify" /\ report' # report /\ pc' # "failed") => EntryPassed]_vars
    /\ []((pc = "done" /\ engine # "Verify")
            => /\ CounterSum(report) = Len(archive)
               /\ Len(archive) = 0 => report = ZeroReport)

C27_Witness ==
    /\ pc = "done"
    /\ engine = "Extractor"
    /\ Len(archive) = 2
    /\ report.dirs_created = 1
    /\ report.entries_skipped = 1
    /\ report.files_extracted = 0
    /\ archive[1].kind = "Directory"
    /\ IsDir(fs0, SafePath(archive[1].name))

(* C28: when the validation pass of ValidateFirst has accepted the archive,
   the destination was empty, the entry names are pairwise distinct, no
   filter rejects an entry and every content stream yields its declared
   size, the write pass raises no policy error (and so ends with the report
   and the tree of a Streaming extraction). *)
DistinctNames ==
    \A i, j \in 1..Len(archive) : archive[i].name = archive[j].name => i = j

HonestSizes == \A i \in 1..Len(archive) : archive[i].actual = archive[i].size

NoFilterSoFar ==
    report.entries_skipped
      = Cardinality({i \in 1..(idx - 1) : archive[i].kind \in {"Symlink", "Link"}})

C28_ValidatedWritePassSucceeds ==
    [][(/\ IsValidateFirst
        /\ engine # "Verify"
        /\ pc \in {"check", "exec", "open", "copy", "finish"}
        /\ fs0 = EmptyDest.fs
        /\ DistinctNames
        /\ HonestSizes
        /\ NoFilterSoFar
        /\ accepted' # "no"
        /\ pc' = "failed")
         => err'.kind \notin PolicyErrors]_vars

(* C29: when a file entry is committed, the amount added to bytes_written
   is the length of the file just written and is at most the declared size
   of the entry. *)
C29_BytesWrittenCountsContent ==
    [][(pc = "finish" /\ idx' = idx + 1)
        => /\ report'.bytes_written = report.bytes_written + inodes'[handle].len
           /\ inodes'[handle].len <= Entry.size]_vars

(* C30: in Extractor::extract a file entry that passed the declared-size
   checks is never failed after its copy with FileTooLarge or
   TotalSizeExceeded; the only size error after the open is SizeMismatch. *)
C30_NoLimitErrorAfterCopy ==
    pc = "sizes" => probe.after.kind \notin {"FileTooLarge", "TotalSizeExceeded"}

====
